---- MODULE Spec2Model ----
(***************************************************************************)
(* A model of the kiosk slideshow player (files/slideshow.py): the main    *)
(* playback loop with its change-feed listener, the website capture        *)
(* worker with the captures of fetch_content, and the attachment sweeps.   *)
(*                                                                         *)
(*   Spec        the main loop (state machine, hold loops, refetch) with   *)
(*               the change-feed listener and the shutdown paths           *)
(*   FairSpec    Spec with the main loop scheduled fairly                  *)
(*   SpecCapture website_capture_worker against fetch_content              *)
(*   SpecGC      the attachment sweeps against the remote document         *)
(*                                                                         *)
(* The main loop calls queue_website_capture as a slide starts and         *)
(* cleanup_unused_attachments_immediate after it adopts a list.  Neither   *)
(* call reads or writes the loop's own state, and both return (their       *)
(* requests carry timeouts), so each is an action of the component whose   *)
(* variables it changes: QueueWebsiteCapture of SpecCapture and            *)
(* ImmediateSweepStart of SpecGC.                                          *)
(***************************************************************************)
EXTENDS Integers, Sequences, FiniteSets, TLC

(***************************************************************************)
(* Bounds of the model.                                                    *)
(***************************************************************************)
\* longest playlist document the remote store returns
MaxSlides == 3
\* the count of release calls per video saturates here
MaxReleaseCount == 2
\* the URLs website slides name are 1..MaxUrls
MaxUrls == 3
\* the file attachments of the remote document are named 1..n, n <= MaxAtt
MaxAtt == 11
\* the file slides of the initial remote document name 1..r, r <= MaxRefs
MaxRefs == 2
\* steps of the environment of a sweep: writes of the playlist editor to the
\* remote document, requests that the network or the store fails
MaxEnvSteps == 1
\* the count of DELETE requests per name saturates here
MaxIssued == 2
\* the clock of the Pillow player's website cache runs from 1 to MaxClock
MaxClock == 5
\* WEBSITE_CACHE_EXPIRY_SECONDS of pillow_slideshow.py, in ticks of that clock
\* (3600 seconds in the program)
WEBSITE_CACHE_EXPIRY_SECONDS == 2
\* MAX_WEBSITE_CACHE_ENTRIES of pillow_slideshow.py, scaled (10 in the program)
MAX_WEBSITE_CACHE_ENTRIES == 2
\* the size above which get_cached_text_surface clears text_cache, scaled
\* (50 in the program)
TextCacheLimit == 2
\* the wall-clock minutes of the text cache are 1..MaxMinute
MaxMinute == 3
\* the document ids the changes feed reports are 1..MaxDocIds
MaxDocIds == 2
\* the ids of slides (their attachment names) are 1..MaxSlideIds
MaxSlideIds == 2
\* the revisions of the status document are 1..MaxRev
MaxRev == 2
\* the number of steps of a fade (25 and 30 in the players)
FADE_STEPS == 5
\* screen_width of the scrolling text's hold, scaled
ScreenWidth == 300
\* a hold with scrolling text is followed for MaxScrollTime frame periods
MaxScrollTime == 12
\* composing and writing one frame takes up to MaxFrameCost frame periods
MaxFrameCost == 2
\* screenshots left on the document that no cache entry names: up to MaxStale
MaxStale == 2
\* the numbers a slide's duration field carries are -2..MaxDurationInput
MaxDurationInput == 302

\* batch sizes of the immediate and of the periodic sweep
ImmediateBatch == 5
PeriodicBatch == 10

\* validate_slide_duration: default_duration and the cap, in seconds
default_duration == 10
MaxDuration == 300

VARIABLES
    state,                \* "connecting" | "default" | "slideshow"
    slides,               \* the live list of processed slides
    need_refetch,         \* threading.Event: the shared refetch flag
    current_slide_index,  \* global index, 0-based
    slide_index,          \* the inner loop's index, 0-based
    slide_data,           \* the record the running loop renders
    pc,                   \* position of the main loop
    rf,                   \* position inside a refetch: none|clear|fetch|wait|got
    held,                 \* the hold loop has run an iteration since start_time
    fetched,              \* the fetch_document response in hand, classified
    released,             \* per slide of the live list: calls of its cleanup_func
    leaked,               \* history: a list was dropped with a video never released
    twice,                \* history: some cleanup_func was called a second time
    pending,              \* history: a change event not yet followed by a fetch
    exit_cause            \* why the process ended: none|quit|signal|exception

engineVars == <<state, slides, need_refetch, current_slide_index, slide_index,
                slide_data, pc, rf, held, fetched, released, leaked, twice,
                pending, exit_cause>>

VARIABLES
    website_cache,        \* url -> filename of its cached screenshot, 0: no entry
    capture_queue,        \* Queue(maxsize=1) of URLs to pre-capture
    capture_in_progress,  \* the worker's flag, guarded by capture_lock
    wpc,                  \* position of website_capture_worker
    wurl,                 \* the URL the worker took from the queue, 0: none
    mpc,                  \* position of the main thread inside fetch_content
    murl                  \* the URL fetch_content is capturing, 0: none

capVars == <<website_cache, capture_queue, capture_in_progress, wpc, wurl, mpc,
             murl>>

VARIABLES
    doc_slides,              \* remote document: its slides
    doc_attachments,         \* remote document: the names in _attachments
    doc_rev,                 \* remote document: _rev
    cleanup_lock,            \* who holds it: none | immediate | periodic
    gc_pc,                   \* position of the sweep: idle|fetch|batch|delete|sleep|done
    attachment_names,        \* sweep local: the names of the fetched document
    unused_attachments,      \* sweep local: the list not yet batched
    batch,                   \* _delete_attachment_batch: names not yet requested
    current_rev,             \* _delete_attachment_batch: the revision it sends
    issued,                  \* history: DELETE requests of this sweep, per name
    env_steps,               \* history: editor writes and failed requests so far
    interfered,              \* history: a write during the sweep, or a DELETE refused
    get_failed,              \* history: a GET of this sweep was not answered 200
    deleted_referenced       \* history: a DELETE removed a name a slide referenced

gcVars == <<doc_slides, doc_attachments, doc_rev, cleanup_lock, gc_pc,
            attachment_names, unused_attachments, batch, current_rev, issued,
            env_steps, interfered, get_failed, deleted_referenced>>

\* roles/app/files/pillow_slideshow.py: the website cache of the Pillow player
VARIABLES
    website_screenshot_cache,  \* url -> timestamp of its entry, 0: no entry
    wnow,                      \* time.time(), in ticks
    prev_call,                 \* history: the call before the last one
    last_call                  \* history: the last call of
                               \* fetch_and_process_website_slide

webVars == <<website_screenshot_cache, wnow, prev_call, last_call>>

\* files/slideshow.py: the cache of rendered text overlays
VARIABLES
    text_cache,            \* cache key -> minute its surface was rendered in,
                           \* 0: no entry
    last_datetime_minute,  \* the minute of the last forced refresh, 0: None
    minute,                \* datetime.now(), in minutes
    last_text              \* history: the last call of get_cached_text_surface

textVars == <<text_cache, last_datetime_minute, minute, last_text>>

\* files/slideshow.py: the duration of the slide that is about to be held
VARIABLES
    duration,         \* slide_data.get('duration'), as the document carries it
    slide_duration    \* the value validate_slide_duration returned for it

durVars == <<duration, slide_duration>>

\* files/slideshow.py: the arguments of queue_website_capture
VARIABLES
    slides_list,     \* the list the main loop plays
    current_index    \* the index of the slide whose start made the last call,
                     \* -1: no call yet

queueVars == <<slides_list, current_index>>

\* files/slideshow.py: the age of the entries of website_cache
VARIABLES
    expired          \* the URLs whose entry has a 'timestamp' at least the
                     \* TTL of the spec ago

ageVars == <<expired>>

\* files/slideshow.py: the change-feed listener (watch_changes)
VARIABLES
    lpc,             \* position of watch_changes: connect | read | backoff
    prev_line,       \* history: the line iter_lines() yielded before the last
    last_line        \* history: the last line iter_lines() yielded

listenVars == <<lpc, prev_line, last_line>>

\* roles/app/files/pillow_slideshow.py: process_slides_from_doc
VARIABLES
    raw_slides,        \* doc.get('slides', []) of the call
    ppos,              \* number of slides the for loop has gone through
    processed_slides   \* the list the call is building

procVars == <<raw_slides, ppos, processed_slides>>

\* files/slideshow.py: the slide shown and the slide named in the status
\* document (main loop, state "slideshow")
VARIABLES
    pub_slides,      \* the ids of the live list (slide['id'])
    pub_index,       \* slide_index
    pub_pc,          \* idle | slide (top of the while loop) | hold
    published        \* current_slide_id of the last update_tv_status call

pubVars == <<pub_slides, pub_index, pub_pc, published>>

\* roles/app/files/pillow_slideshow.py: update_tv_status_document
VARIABLES
    st_pc,           \* idle | read | write
    status_rev,      \* _rev of the status document on the server, 0: no document
    status_slide,    \* its current_slide_id, 0: no document
    payload_rev,     \* payload['_rev'], 0: none
    payload_slide,   \* payload['current_slide_id']
    puts,            \* PUT requests sent by the call under way
    retries_left     \* what is left of Retry(total=3) for the PUT

statusVars == <<st_pc, status_rev, status_slide, payload_rev, payload_slide, puts,
                retries_left>>

\* files/slideshow.py: the video slides of process_slides_from_doc
VARIABLES
    vid_doc,         \* what happens to each video slide of the document
    vid_pos,         \* number of slides gone through
    temp_files,      \* positions of the slides whose temp file is on disk
    vid_slides       \* positions of the slides in processed_slides

vidVars == <<vid_doc, vid_pos, temp_files, vid_slides>>

\* the transition into a slide (Pillow: main and perform_fade_transition;
\* files/slideshow.py: the fade-in of the main loop)
VARIABLES
    fade_player,     \* which player runs: pillow | pygame
    fade_outgoing,   \* a slide was shown before (Pillow: outgoing_slide_canvas)
    fade_duration,   \* transition time of the incoming slide, in ms
    fade_interrupts, \* a change event arrives during the fade
    fade_pc,         \* idle | start | out | in | done | cut
    fade_i,          \* the loop variable of the phase under way
    frames_written,  \* frames written since the transition began
    last_frame       \* the last of them

fadeVars == <<fade_player, fade_outgoing, fade_duration, fade_interrupts, fade_pc,
              fade_i, frames_written, last_frame>>

\* the hold of a slide with scrolling text (Pillow: main and
\* apply_text_and_scroll); time in frame periods of 1 / SCROLL_FPS s,
\* positions in 1 / SCROLL_FPS pixel
VARIABLES
    original_text_width, \* width of the scrolling text
    scroll_position,     \* scroll_positions[idx] of the text
    scroll_now,          \* wall-clock time since the scroll cycle began
    drawn_at,            \* the time at which the last frame was composed
    scroll_frames        \* frames composed since the scroll cycle began

scrollVars == <<original_text_width, scroll_position, scroll_now, drawn_at, scroll_frames>>

\* a capture that produced a surface: upload_website_screenshot and the
\* website_cache update that follows it (files/slideshow.py)
VARIABLES
    up_pc,        \* idle | get | put | store | done
    up_url,       \* the URL captured, 0: none
    upload_rev,   \* current_rev of upload_website_screenshot
    filename      \* what upload_website_screenshot returned, 0: None

uploadVars == <<up_pc, up_url, upload_rev, filename>>

\* the player's own writes to the playlist document and the refetches they
\* cause (files/slideshow.py)
VARIABLES
    own_change,    \* a line of the changes feed about such a write is unread
    refetch_flag,  \* need_refetch, as this component sees it
    stale_shots    \* screenshots on the document that website_cache no longer names

quiesceVars == <<own_change, refetch_flag, stale_shots>>

auxVars == <<webVars, textVars, durVars, queueVars, ageVars, listenVars, procVars, pubVars, statusVars, vidVars, fadeVars, scrollVars, uploadVars, quiesceVars>>

vars == <<engineVars, capVars, gcVars, auxVars>>

Min(a, b) == IF a <= b THEN a ELSE b

Urls == 1..MaxUrls

\* attachment names: the files, then the screenshot names of the URLs
AttNames == 1..MaxAtt
UploadedName(u) == MaxAtt + u
LocalName(u) == MaxAtt + MaxUrls + u
Names == 1..(MaxAtt + 2 * MaxUrls)

(***************************************************************************)
(* Playlist documents and processed slides.                                *)
(***************************************************************************)
\* a slide of the playlist document; ok: its content can be fetched/decoded
SlideDefs ==
    { [type |-> "image", transition_time |-> 0,   ok |-> TRUE],
      [type |-> "image", transition_time |-> 500, ok |-> TRUE],
      [type |-> "image", transition_time |-> 0,   ok |-> FALSE],
      [type |-> "video", transition_time |-> 0,   ok |-> TRUE],
      [type |-> "video", transition_time |-> 0,   ok |-> FALSE] }

Docs == UNION { [1..n -> SlideDefs] : n \in 0..MaxSlides }

\* what fetch_document hands back: None (404, other error), a falsy
\* document, or a document with slides
FetchedDocs ==
    { [kind |-> "none", status |-> 404, doc |-> <<>>],
      [kind |-> "none", status |-> 500, doc |-> <<>>],
      [kind |-> "empty", status |-> 200, doc |-> <<>>] }
    \cup { [kind |-> "doc", status |-> 200, doc |-> d] : d \in Docs }

NoSlide == [type |-> "none", transition_time |-> 0]

\* the processed list: the slides whose content was produced, in document
\* order; a processed video owns a fresh temp file and decoder
RECURSIVE process_slides_from_doc(_)
process_slides_from_doc(doc) ==
    IF doc = <<>> THEN <<>>
    ELSE LET d == Head(doc) IN
         IF d.ok
         THEN <<[type |-> d.type, transition_time |-> d.transition_time]>>
              \o process_slides_from_doc(Tail(doc))
         ELSE process_slides_from_doc(Tail(doc))

\* no cleanup_func of a freshly processed list has been called
Fresh(list) == [i \in 1..Len(list) |-> 0]

IsVideo(list, i) == list[i].type = "video"

\* one more call of a cleanup_func (release the decoder, unlink the file)
Bump(n) == Min(n + 1, MaxReleaseCount)

\* cleanup_old_slides: the cleanup_func of every video slide of the list
cleanup_old_slides(rel, old) ==
    [i \in 1..Len(old) |-> IF IsVideo(old, i) THEN Bump(rel[i]) ELSE rel[i]]

\* some cleanup_func of the list was called more than once
SomeReleasedTwice(rel) == \E i \in 1..Len(rel) : rel[i] >= 2

\* some video of the list never had its cleanup_func called
SomeUnreleased(rel, old) == \E i \in 1..Len(old) : IsVideo(old, i) /\ rel[i] = 0

\* a fetch result with the list process_slides_from_doc makes of it
FetchResults ==
    { [kind |-> r.kind, status |-> r.status,
       new |-> IF r.kind = "doc" THEN process_slides_from_doc(r.doc) ELSE <<>>]
      : r \in FetchedDocs }

\* a response by its HTTP status, the kind of value fetch_document returns
\* for it, and whether processing it yields a slide
ResponseClass(r) == [status |-> r.status, kind |-> r.kind, some |-> r.new # <<>>]

NoResponse == [status |-> 0, kind |-> "none", some |-> FALSE]

(***************************************************************************)
(* Initial state: the module-level state variables.                        *)
(***************************************************************************)
EngineInit ==
    /\ state = "connecting"
    /\ slides = <<>>
    /\ need_refetch = FALSE
    /\ current_slide_index = 0
    /\ slide_index = 0
    /\ slide_data = NoSlide
    /\ pc = "top"
    /\ rf = "none"
    /\ held = FALSE
    /\ fetched = NoResponse
    /\ released = <<>>
    /\ leaked = FALSE
    /\ twice = FALSE
    /\ pending = FALSE
    /\ exit_cause = "none"

\* the capture worker is started, blocked in capture_queue.get(); nothing is
\* cached, queued or being captured
CapInit ==
    /\ website_cache = [u \in Urls |-> 0]
    /\ capture_queue = <<>>
    /\ capture_in_progress = FALSE
    /\ wpc = "get"
    /\ wurl = 0
    /\ mpc = "idle"
    /\ murl = 0

\* no sweep runs; in the specifications of the other components the remote
\* document has no slide and no attachment
SweepIdle ==
    /\ cleanup_lock = "none"
    /\ gc_pc = "idle"
    /\ attachment_names = {}
    /\ unused_attachments = <<>>
    /\ batch = <<>>
    /\ current_rev = 0
    /\ issued = [a \in Names |-> 0]
    /\ env_steps = 0
    /\ interfered = FALSE
    /\ get_failed = FALSE
    /\ deleted_referenced = FALSE

GCIdle ==
    /\ doc_slides = {}
    /\ doc_attachments = {}
    /\ doc_rev = 1
    /\ SweepIdle

\* the URLs the website slides of the Pillow player name: one more than its
\* cache holds
PUrls == 1..(MAX_WEBSITE_CACHE_ENTRIES + 1)

NoCall == [url |-> 0, at |-> 0, had |-> FALSE, captured |-> FALSE,
           ok |-> FALSE, ts |-> 0, canvas |-> 0]

\* website_screenshot_cache = {} at import; no slide processed yet
WebInit ==
    /\ website_screenshot_cache = [u \in PUrls |-> 0]
    /\ wnow = 1
    /\ prev_call = NoCall
    /\ last_call = NoCall

\* the cache keys of the text overlays: more than the cache is to hold; the
\* texts of the keys 1 and 2 contain {datetime}
TextKeys == 1..(TextCacheLimit + 2)

has_datetime(k) == k <= 2

NoText == [key |-> 0, at |-> 0, rendered |-> FALSE, surface |-> 0]

\* text_cache = {}, last_datetime_minute = None
TextInit ==
    /\ text_cache = [k \in TextKeys |-> 0]
    /\ last_datetime_minute = 0
    /\ minute = 1
    /\ last_text = NoText

\* a Python value of the duration field.  kind: the type (none for a missing
\* field); v: the number, in seconds; special: "" for a finite number, or the
\* float nan, inf, -inf; text: what a str holds
Value(kind, v, special, text) ==
    [kind |-> kind, v |-> v, special |-> special, text |-> text]

PyNone == Value("none", 0, "", "")

NotValidated == Value("unset", 0, "", "")

\* no slide is about to be held
DurIdle ==
    /\ duration = PyNone
    /\ slide_duration = NotValidated

\* a line of the changes feed.  utf8: the bytes decode; json: what
\* json.loads makes of the text (invalid: it raises); id: the "id" member of
\* an object, 0 if it has none; has_id: a string or an array that contains
\* "id"
Line(utf8, json, id, has_id) ==
    [utf8 |-> utf8, json |-> json, id |-> id, has_id |-> has_id]

NoLine == Line(TRUE, "none", 0, FALSE)

\* the thread is started and about to open the feed
ListenInit ==
    /\ lpc = "connect"
    /\ prev_line = NoLine
    /\ last_line = NoLine

\* no call of the Pillow player's process_slides_from_doc is under way
ProcIdle ==
    /\ raw_slides = <<>>
    /\ ppos = 0
    /\ processed_slides = <<>>

\* the slideshow is not playing, nothing has been published
PubIdle ==
    /\ pub_slides = <<>>
    /\ pub_index = 0
    /\ pub_pc = "idle"
    /\ published = 0

\* Retry(total=3, ...) of get_requests_session
RetryTotal == 3

\* no status document yet, no publish under way
StatusIdle ==
    /\ st_pc = "idle"
    /\ status_rev = 0
    /\ status_slide = 0
    /\ payload_rev = 0
    /\ payload_slide = 0
    /\ puts = 0
    /\ retries_left = RetryTotal

\* no document with videos is being processed
VidIdle ==
    /\ vid_doc = <<>>
    /\ vid_pos = 0
    /\ temp_files = {}
    /\ vid_slides = <<>>

\* Image.blend(from, to, i / FADE_STEPS), or a canvas written as it is
Frame(from, to, i) == [from |-> from, to |-> to, i |-> i]

NoFrame == Frame("none", "none", 0)

\* no transition is under way
FadeIdle ==
    /\ fade_player = "pillow"
    /\ fade_outgoing = FALSE
    /\ fade_duration = 0
    /\ fade_interrupts = FALSE
    /\ fade_pc = "idle"
    /\ fade_i = 0
    /\ frames_written = 0
    /\ last_frame = NoFrame

\* no text is scrolling
ScrollIdle ==
    /\ original_text_width = 0
    /\ scroll_position = 0
    /\ scroll_now = 0
    /\ drawn_at = 0
    /\ scroll_frames = 0

\* no screenshot is being uploaded
UploadIdle ==
    /\ up_pc = "idle"
    /\ up_url = 0
    /\ upload_rev = 0
    /\ filename = 0

\* no write of the player is under way or unread
QuiesceIdle ==
    /\ own_change = FALSE
    /\ refetch_flag = FALSE
    /\ stale_shots = 0

\* website_cache = {}: no entry, none expired
AgeInit == expired = {}

\* no slide has started
QueueIdle ==
    /\ slides_list = <<>>
    /\ current_index = -1

AuxInit == WebInit /\ TextInit /\ DurIdle /\ QueueIdle /\ AgeInit /\ ListenInit /\ ProcIdle /\ PubIdle /\ StatusIdle /\ VidIdle /\ FadeIdle /\ ScrollIdle /\ UploadIdle /\ QuiesceIdle

Init == EngineInit /\ CapInit /\ GCIdle /\ AuxInit

Running == pc \notin {"exited", "crashed"}

(***************************************************************************)
(* The change-feed listener (watch_changes): a change event for the        *)
(* device's document sets the flag.                                        *)
(***************************************************************************)
ChangeEvent_Toggles ==
    /\ Running
    /\ need_refetch' = ~need_refetch
    /\ pending' = TRUE
    /\ UNCHANGED <<state, slides, current_slide_index, slide_index, slide_data,
                   pc, rf, held, fetched, released, leaked, twice, exit_cause>>
    /\ UNCHANGED <<capVars, gcVars, auxVars>>

ChangeEvent ==
    /\ Running
    /\ need_refetch' = TRUE
    /\ pending' = TRUE
    /\ UNCHANGED <<state, slides, current_slide_index, slide_index, slide_data,
                   pc, rf, held, fetched, released, leaked, twice, exit_cause>>
    /\ UNCHANGED <<capVars, gcVars, auxVars>>

(***************************************************************************)
(* The refetch steps every branch shares: need_refetch.clear(), the        *)
(* request of fetch_document is sent, its response arrives.                *)
(***************************************************************************)
RefetchClear ==
    /\ Running /\ rf = "clear"
    /\ need_refetch' = FALSE
    /\ rf' = "fetch"
    /\ UNCHANGED <<state, slides, current_slide_index, slide_index, slide_data,
                   pc, held, fetched, released, leaked, twice, pending,
                   exit_cause>>
    /\ UNCHANGED <<capVars, gcVars, auxVars>>

RefetchStart ==
    /\ Running /\ rf = "fetch"
    /\ rf' = "wait"
    /\ pending' = FALSE
    /\ UNCHANGED <<state, slides, need_refetch, current_slide_index, slide_index,
                   slide_data, pc, held, fetched, released, leaked, twice,
                   exit_cause>>
    /\ UNCHANGED <<capVars, gcVars, auxVars>>

\* a variant that clears the flag when the response is in, not before the
\* request: it forgets an event raised during the fetch
FetchResponse_ClearsAfter ==
    /\ Running /\ rf = "wait"
    /\ rf' = "got"
    /\ need_refetch' = FALSE
    /\ fetched' \in {ResponseClass(r) : r \in FetchResults}
    /\ UNCHANGED <<state, slides, current_slide_index, slide_index,
                   slide_data, pc, held, released, leaked, twice, pending,
                   exit_cause>>
    /\ UNCHANGED <<capVars, gcVars, auxVars>>

FetchResponse ==
    /\ Running /\ rf = "wait"
    /\ rf' = "got"
    /\ fetched' \in {ResponseClass(r) : r \in FetchResults}
    /\ UNCHANGED <<state, slides, need_refetch, current_slide_index, slide_index,
                   slide_data, pc, held, released, leaked, twice, pending,
                   exit_cause>>
    /\ UNCHANGED <<capVars, gcVars, auxVars>>

\* the results the response in hand can be
Fetched == {r \in FetchResults : ResponseClass(r) = fetched}

\* a variant that restarts the new list at its first slide
ResumeIndex_Zero(idx, new) == 0

\* the index a mid-slide refetch resumes at
ResumeIndex(idx, new) == Min(idx, Len(new) - 1)

\* a refetch inside the slide loop found a non-empty new list: release the
\* old list, swap, resume
SwapSlides(new) ==
    /\ twice' = (twice \/ SomeReleasedTwice(cleanup_old_slides(released, slides)))
    /\ released' = Fresh(new)
    /\ slides' = new
    /\ current_slide_index' = ResumeIndex(slide_index, new)
    /\ slide_index' = ResumeIndex(slide_index, new)
    /\ slide_data' = new[ResumeIndex(slide_index, new) + 1]
    /\ UNCHANGED leaked

Advance_NoWrap ==
    /\ current_slide_index' = (slide_index + 1) % Len(slides)
    /\ slide_index' = slide_index + 1

\* slide_index += 1 and the wrap to 0; slide_data and the hold's clock are
\* dead until the next slide sets them
Advance ==
    /\ current_slide_index' = (slide_index + 1) % Len(slides)
    /\ slide_index' = IF slide_index + 1 >= Len(slides) THEN 0 ELSE slide_index + 1

(***************************************************************************)
(* state == "connecting"                                                   *)
(***************************************************************************)
ConnectingFetchStart ==
    /\ pc = "top" /\ state = "connecting" /\ rf = "none"
    /\ rf' = "wait"
    /\ pending' = FALSE
    /\ UNCHANGED <<state, slides, need_refetch, current_slide_index, slide_index,
                   slide_data, pc, held, fetched, released, leaked, twice,
                   exit_cause>>
    /\ UNCHANGED <<capVars, gcVars, auxVars>>

\* the branch of state "connecting" on the fetched document
ConnectingBranch_PlaysAnyList(r) ==
    IF r.kind = "none"
    THEN UNCHANGED <<state, slides, current_slide_index, released>>
    ELSE IF r.kind = "empty"
    THEN state' = "default" /\ UNCHANGED <<slides, current_slide_index, released>>
    ELSE /\ slides' = r.new
         /\ released' = Fresh(r.new)
         /\ state' = "slideshow" /\ current_slide_index' = 0

ConnectingBranch(r) ==
    IF r.kind = "none"
    THEN UNCHANGED <<state, slides, current_slide_index, released>>
    ELSE IF r.kind = "empty"
    THEN state' = "default" /\ UNCHANGED <<slides, current_slide_index, released>>
    ELSE /\ slides' = r.new
         /\ released' = Fresh(r.new)
         /\ IF r.new # <<>>
            THEN state' = "slideshow" /\ current_slide_index' = 0
            ELSE state' = "default" /\ UNCHANGED current_slide_index

ConnectingFetchDone ==
    /\ pc = "top" /\ state = "connecting" /\ rf = "got"
    /\ \E r \in Fetched : ConnectingBranch(r)
    /\ rf' = "none"
    /\ fetched' = NoResponse
    /\ UNCHANGED <<need_refetch, slide_index, slide_data, pc, held, leaked, twice,
                   pending, exit_cause>>
    /\ UNCHANGED <<capVars, gcVars, auxVars>>

(***************************************************************************)
(* state == "default"                                                      *)
(***************************************************************************)
DefaultPoll ==
    /\ pc = "top" /\ state = "default" /\ rf = "none"
    /\ need_refetch
    /\ rf' = "clear"
    /\ UNCHANGED <<state, slides, need_refetch, current_slide_index, slide_index,
                   slide_data, pc, held, fetched, released, leaked, twice,
                   pending, exit_cause>>
    /\ UNCHANGED <<capVars, gcVars, auxVars>>

\* the branch of state "default" on the fetched document
DefaultBranch(r) ==
    IF r.kind = "doc"
    THEN /\ slides' = r.new
         /\ released' = Fresh(r.new)
         /\ leaked' = (leaked \/ SomeUnreleased(released, slides))
         /\ IF r.new # <<>>
            THEN state' = "slideshow" /\ current_slide_index' = 0
            ELSE UNCHANGED <<state, current_slide_index>>
    ELSE UNCHANGED <<state, slides, current_slide_index, released, leaked>>

DefaultFetchDone ==
    /\ pc = "top" /\ state = "default" /\ rf = "got"
    /\ \E r \in Fetched : DefaultBranch(r)
    /\ rf' = "none"
    /\ fetched' = NoResponse
    /\ UNCHANGED <<need_refetch, slide_index, slide_data, pc, held, twice,
                   pending, exit_cause>>
    /\ UNCHANGED <<capVars, gcVars, auxVars>>

(***************************************************************************)
(* state == "slideshow": the slide loop                                    *)
(***************************************************************************)
SlideshowEnter ==
    /\ pc = "top" /\ state = "slideshow" /\ rf = "none"
    /\ slide_index' = current_slide_index
    /\ pc' = "slide"
    /\ UNCHANGED <<state, slides, need_refetch, current_slide_index, slide_data,
                   rf, held, fetched, released, leaked, twice, pending,
                   exit_cause>>
    /\ UNCHANGED <<capVars, gcVars, auxVars>>

\* while slide_index < len(slides): slide_data = slides[slide_index] ...
SlideStart ==
    /\ pc = "slide"
    /\ IF slide_index < Len(slides)
       THEN /\ slide_data' = slides[slide_index + 1]
            /\ pc' = IF slides[slide_index + 1].type = "video" THEN "vhold"
                     ELSE IF slides[slide_index + 1].transition_time > 0 THEN "fade"
                     ELSE "ihold"
       ELSE /\ pc' = "top"
            /\ UNCHANGED slide_data
    /\ held' = FALSE
    /\ UNCHANGED <<state, slides, need_refetch, current_slide_index, slide_index,
                   rf, fetched, released, leaked, twice, pending, exit_cause>>
    /\ UNCHANGED <<capVars, gcVars, auxVars>>

\* a hold or fade loop tests need_refetch.is_set()
ObserveFlag ==
    /\ pc \in {"vhold", "fade", "ihold"} /\ rf = "none"
    /\ need_refetch
    /\ rf' = "clear"
    /\ UNCHANGED <<state, slides, need_refetch, current_slide_index, slide_index,
                   slide_data, pc, held, fetched, released, leaked, twice,
                   pending, exit_cause>>
    /\ UNCHANGED <<capVars, gcVars, auxVars>>

\* the end of a video slide: slide_data's cleanup_func, if it has one, is
\* called; then the loop leaves for "default" or advances
VideoEnd(st) ==
    /\ IF slide_data.type = "video"
       THEN /\ released' = [released EXCEPT ![slide_index + 1] = Bump(@)]
            /\ twice' = (twice \/ released[slide_index + 1] >= 1)
       ELSE UNCHANGED <<released, twice>>
    /\ slide_data' = NoSlide
    /\ held' = FALSE
    /\ IF st = "default"
       THEN pc' = "top" /\ UNCHANGED <<current_slide_index, slide_index>>
       ELSE pc' = "slide" /\ Advance

\* one iteration of the video hold loop with the flag clear: video_cap.read()
VideoHoldFrame ==
    /\ pc = "vhold" /\ rf = "none"
    /\ ~need_refetch
    /\ IF slide_data.type # "video"
       THEN \* video_cap is None: AttributeError, not caught anywhere
            /\ pc' = "crashed" /\ exit_cause' = "exception"
            /\ UNCHANGED <<held, released, twice, current_slide_index,
                           slide_index, slide_data>>
       ELSE IF released[slide_index + 1] > 0
       THEN \* a released decoder reads no frame, also after the rewind: break
            /\ VideoEnd(state)
            /\ UNCHANGED exit_cause
       ELSE /\ held' = TRUE
            /\ UNCHANGED <<pc, exit_cause, released, twice, current_slide_index,
                           slide_index, slide_data>>
    /\ UNCHANGED <<state, slides, need_refetch, rf, fetched, leaked, pending>>
    /\ UNCHANGED <<capVars, gcVars, auxVars>>

\* time.time() - start_time reaches slide_duration
VideoHoldExpire ==
    /\ pc = "vhold" /\ rf = "none"
    /\ held
    /\ VideoEnd(state)
    /\ UNCHANGED <<state, slides, need_refetch, rf, fetched, leaked, pending,
                   exit_cause>>
    /\ UNCHANGED <<capVars, gcVars, auxVars>>

VideoRefetchDone ==
    /\ pc = "vhold" /\ rf = "got"
    /\ \E r \in Fetched :
        IF r.new # <<>>
        THEN /\ SwapSlides(r.new)
             /\ held' = FALSE
             /\ UNCHANGED <<state, pc>>
        ELSE /\ state' = "default"
             /\ VideoEnd("default")
             /\ UNCHANGED <<slides, leaked>>
    /\ rf' = "none"
    /\ fetched' = NoResponse
    /\ UNCHANGED <<need_refetch, pending, exit_cause>>
    /\ UNCHANGED <<capVars, gcVars, auxVars>>

\* a variant whose fade-in runs all its steps without a look at the flag
FadeIn_IgnoresFlag ==
    /\ pc = "fade" /\ rf = "none"
    /\ pc' = "ihold"
    /\ held' = FALSE
    /\ UNCHANGED <<state, slides, need_refetch, current_slide_index, slide_index,
                   slide_data, rf, fetched, released, leaked, twice, pending,
                   exit_cause>>
    /\ UNCHANGED <<capVars, gcVars, auxVars>>

\* the fade-in ran to its last step with the flag clear
FadeIn ==
    /\ pc = "fade" /\ rf = "none"
    /\ ~need_refetch
    /\ pc' = "ihold"
    /\ held' = FALSE
    /\ UNCHANGED <<state, slides, need_refetch, current_slide_index, slide_index,
                   slide_data, rf, fetched, released, leaked, twice, pending,
                   exit_cause>>
    /\ UNCHANGED <<capVars, gcVars, auxVars>>

FadeRefetchDone ==
    /\ pc = "fade" /\ rf = "got"
    /\ \E r \in Fetched :
        IF r.new # <<>>
        THEN /\ SwapSlides(r.new)
             /\ pc' = "slide"
             /\ UNCHANGED state
        ELSE /\ state' = "default"
             /\ pc' = "top"
             /\ slide_data' = NoSlide
             /\ UNCHANGED <<slides, current_slide_index, slide_index, released,
                            leaked, twice>>
    /\ rf' = "none"
    /\ fetched' = NoResponse
    /\ UNCHANGED <<need_refetch, held, pending, exit_cause>>
    /\ UNCHANGED <<capVars, gcVars, auxVars>>

\* one iteration of the image/website hold loop with the flag clear
ImageHoldFrame ==
    /\ pc = "ihold" /\ rf = "none"
    /\ ~need_refetch
    /\ IF state = "default"
       THEN pc' = "iend" /\ UNCHANGED <<held, exit_cause>>
       ELSE IF slide_data.type = "video"
       THEN \* slide_data['image']: KeyError, not caught anywhere
            pc' = "crashed" /\ exit_cause' = "exception" /\ UNCHANGED held
       ELSE held' = TRUE /\ UNCHANGED <<pc, exit_cause>>
    /\ UNCHANGED <<state, slides, need_refetch, current_slide_index, slide_index,
                   slide_data, rf, fetched, released, leaked, twice, pending>>
    /\ UNCHANGED <<capVars, gcVars, auxVars>>

ImageHoldExpire ==
    /\ pc = "ihold" /\ rf = "none"
    /\ held
    /\ pc' = "iend"
    /\ UNCHANGED <<state, slides, need_refetch, current_slide_index, slide_index,
                   slide_data, rf, held, fetched, released, leaked, twice,
                   pending, exit_cause>>
    /\ UNCHANGED <<capVars, gcVars, auxVars>>

ImageRefetchDone ==
    /\ pc = "ihold" /\ rf = "got"
    /\ \E r \in Fetched :
        IF r.new # <<>>
        THEN /\ SwapSlides(r.new)
             /\ held' = FALSE
             /\ UNCHANGED <<state, pc>>
        ELSE /\ state' = "default"
             /\ pc' = "iend"
             /\ UNCHANGED <<slides, current_slide_index, slide_index, slide_data,
                            released, leaked, twice, held>>
    /\ rf' = "none"
    /\ fetched' = NoResponse
    /\ UNCHANGED <<need_refetch, pending, exit_cause>>
    /\ UNCHANGED <<capVars, gcVars, auxVars>>

\* after the image hold loop: replay on a set flag, leave for "default",
\* or advance
ImageEnd ==
    /\ pc = "iend"
    /\ IF need_refetch
       THEN pc' = "slide" /\ UNCHANGED <<current_slide_index, slide_index>>
       ELSE IF state = "default"
       THEN pc' = "top" /\ UNCHANGED <<current_slide_index, slide_index>>
       ELSE pc' = "slide" /\ Advance
    /\ slide_data' = NoSlide
    /\ held' = FALSE
    /\ UNCHANGED <<state, slides, need_refetch, rf, fetched, released, leaked,
                   twice, pending, exit_cause>>
    /\ UNCHANGED <<capVars, gcVars, auxVars>>

(***************************************************************************)
(* Shutdown: pygame.QUIT / ESC in a hold loop (sys.exit), or a signal.     *)
(* The process is gone: its variables are forgotten, the temp files stay.  *)
(***************************************************************************)
Exit(cause) ==
    /\ pc' = "exited"
    /\ exit_cause' = cause
    /\ need_refetch' = FALSE
    /\ current_slide_index' = 0
    /\ slide_index' = 0
    /\ slide_data' = NoSlide
    /\ rf' = "none"
    /\ held' = FALSE
    /\ fetched' = NoResponse
    /\ UNCHANGED <<state, slides, released, leaked, twice, pending>>
    /\ UNCHANGED <<capVars, gcVars, auxVars>>

Quit ==
    /\ pc \in {"vhold", "ihold"} /\ rf = "none"
    /\ Exit("quit")

Terminate ==
    /\ Running
    /\ Exit("signal")

MainStep ==
    \/ RefetchClear \/ RefetchStart \/ FetchResponse
    \/ ConnectingFetchStart \/ ConnectingFetchDone
    \/ DefaultPoll \/ DefaultFetchDone
    \/ SlideshowEnter \/ SlideStart \/ ObserveFlag
    \/ VideoHoldFrame \/ VideoHoldExpire \/ VideoRefetchDone
    \/ FadeIn \/ FadeRefetchDone
    \/ ImageHoldFrame \/ ImageHoldExpire \/ ImageRefetchDone \/ ImageEnd

Next == MainStep \/ ChangeEvent \/ Quit \/ Terminate

Spec == Init /\ [][Next]_vars

\* the main thread keeps running while it has a step to take
FairSpec == Spec /\ WF_vars(MainStep)

(***************************************************************************)
(* Claims about the main loop.                                             *)
(***************************************************************************)
\* the step in which the main loop branches on the response in hand
FetchCompletes == rf = "got" /\ rf' = "none" /\ pc' # "exited"

\* a refetch inside the slide loop adopts a non-empty new list in this step
SwapStep == pc \in {"vhold", "fade", "ihold"} /\ FetchCompletes /\ fetched.some

\* C1: no fetch result, playlist content or change notification ends the
\* main loop; the process stops running only on an explicit shutdown request
C1_OnlyShutdownEndsLoop == ~Running => exit_cause \in {"quit", "signal"}

\* C2: whenever a fetch yields at least one processed slide the engine is in
\* Playing (state "slideshow") once it has branched on it, and an engine that
\* has left Connecting never returns to it
C2_ReachesPlaying ==
    [][ /\ (FetchCompletes /\ fetched.some) => state' = "slideshow"
        /\ state # "connecting" => state' # "connecting" ]_vars

\* C3: in Connecting, a document fetch that fails with HTTP 404 puts the
\* engine into NoContent (state "default")
C3_NotFoundEntersNoContent ==
    [][ (state = "connecting" /\ FetchCompletes /\ fetched.status = 404)
            => state' = "default" ]_vars

C6_ReleasedAtMostOnce ==
    /\ ~twice
    /\ \A i \in 1..Len(released) : released[i] <= 1

\* C7: no list is dropped while one of its videos was never released
C7_OldListReleased == ~leaked

(***************************************************************************)
(* Website captures: website_capture_worker pre-captures the URL the main  *)
(* loop queued; fetch_content, on the main thread, captures a URL that is  *)
(* not cached while it processes a fetched document.  The critical         *)
(* sections of capture_lock are single steps.                              *)
(***************************************************************************)
\* the name the screenshot of a URL is stored under: its attachment name
\* when the upload succeeded, else a name no attachment has
Filename(u, uploaded) == IF uploaded THEN UploadedName(u) ELSE LocalName(u)

\* how a capture_website call followed by upload_website_screenshot ends
CaptureOutcomes == {"uploaded", "local", "failed"}

\* website_cache[url] = {...} after a capture that produced a surface
StoreCapture(cache, u, outcome) ==
    IF outcome = "failed" THEN cache
    ELSE [cache EXCEPT ![u] = Filename(u, outcome = "uploaded")]

\* 'timestamp': time.time() of the entry a capture stores: the entry is new
StoreTimestamp(old, u, outcome) ==
    IF outcome = "failed" THEN old ELSE old \ {u}

\* if url in website_cache: the lookup of fetch_content
CacheHit(u) == website_cache[u] # 0

\* the slide two ahead of the one starting: a website slide with a URL, or
\* any other slide (0)
LookAhead == Urls \cup {0}

\* queue_website_capture, called by the main loop as a slide starts
QueueWebsiteCapture ==
    /\ mpc = "idle"
    /\ \E next \in LookAhead :
        IF ~capture_in_progress /\ capture_queue = <<>> /\ next # 0
        THEN capture_queue' = <<next>>
        ELSE UNCHANGED capture_queue
    /\ UNCHANGED <<website_cache, capture_in_progress, wpc, wurl, mpc, murl>>
    /\ UNCHANGED <<engineVars, gcVars, auxVars>>

\* fetch_content of a website slide: a cache hit returns the cached surface,
\* a miss calls capture_website on the calling thread
FetchContentStart ==
    /\ mpc = "idle"
    /\ \E u \in Urls :
        IF CacheHit(u)
        THEN UNCHANGED <<mpc, murl>>
        ELSE mpc' = "capture" /\ murl' = u
    /\ UNCHANGED <<website_cache, capture_queue, capture_in_progress, wpc, wurl>>
    /\ UNCHANGED <<engineVars, gcVars, auxVars>>

\* capture_website returned to fetch_content
FetchContentCaptureDone ==
    /\ mpc = "capture"
    /\ \E outcome \in CaptureOutcomes :
        /\ website_cache' = StoreCapture(website_cache, murl, outcome)
        /\ expired' = StoreTimestamp(expired, murl, outcome)
    /\ mpc' = "idle"
    /\ murl' = 0
    /\ UNCHANGED <<capture_queue, capture_in_progress, wpc, wurl>>
    /\ UNCHANGED <<engineVars, gcVars, webVars, textVars, durVars, queueVars, listenVars, procVars, pubVars, statusVars, vidVars, fadeVars, scrollVars, uploadVars, quiesceVars>>

\* slide_data = capture_queue.get()
WorkerGet ==
    /\ wpc = "get"
    /\ capture_queue # <<>>
    /\ wurl' = Head(capture_queue)
    /\ capture_queue' = Tail(capture_queue)
    /\ wpc' = "lock"
    /\ UNCHANGED <<website_cache, capture_in_progress, mpc, murl>>
    /\ UNCHANGED <<engineVars, gcVars, auxVars>>

\* with capture_lock: skip if a capture is in progress, else raise the flag
WorkerLock ==
    /\ wpc = "lock"
    /\ IF capture_in_progress
       THEN wpc' = "get" /\ wurl' = 0 /\ UNCHANGED capture_in_progress
       ELSE wpc' = "capture" /\ capture_in_progress' = TRUE /\ UNCHANGED wurl
    /\ UNCHANGED <<website_cache, capture_queue, mpc, murl>>
    /\ UNCHANGED <<engineVars, gcVars, auxVars>>

\* capture_website returned to the worker
WorkerCaptureDone ==
    /\ wpc = "capture"
    /\ \E outcome \in CaptureOutcomes :
        /\ website_cache' = StoreCapture(website_cache, wurl, outcome)
        /\ expired' = StoreTimestamp(expired, wurl, outcome)
    /\ wpc' = "finally"
    /\ UNCHANGED <<capture_queue, capture_in_progress, wurl, mpc, murl>>
    /\ UNCHANGED <<engineVars, gcVars, webVars, textVars, durVars, queueVars, listenVars, procVars, pubVars, statusVars, vidVars, fadeVars, scrollVars, uploadVars, quiesceVars>>

\* finally: with capture_lock: capture_in_progress = False
WorkerFinally ==
    /\ wpc = "finally"
    /\ capture_in_progress' = FALSE
    /\ wpc' = "get"
    /\ wurl' = 0
    /\ UNCHANGED <<website_cache, capture_queue, mpc, murl>>
    /\ UNCHANGED <<engineVars, gcVars, auxVars>>

\* time passes: the entry of u reaches the age of the TTL
EntryExpires ==
    /\ \E u \in Urls :
        /\ website_cache[u] # 0 /\ u \notin expired
        /\ expired' = expired \cup {u}
    /\ UNCHANGED <<capVars, engineVars, gcVars, webVars, textVars, durVars,
                   queueVars, listenVars, procVars, pubVars, statusVars, vidVars, fadeVars, scrollVars, uploadVars, quiesceVars>>

NextCapture ==
    \/ QueueWebsiteCapture \/ FetchContentStart \/ FetchContentCaptureDone
    \/ WorkerGet \/ WorkerLock \/ WorkerCaptureDone \/ WorkerFinally
    \/ EntryExpires

SpecCapture == Init /\ [][NextCapture]_vars

(***************************************************************************)
(* Claims about website captures.                                          *)
(***************************************************************************)
\* C8: at most one capture_website call is in progress at any time, over
\* the worker thread and the main thread together
C8_OneCaptureAtATime == ~(wpc = "capture" /\ mpc = "capture")

(***************************************************************************)
(* Attachment sweeps: cleanup_unused_attachments_immediate (called by the  *)
(* main loop after a playlist change and by startup_cleanup) and the       *)
(* periodic cleanup_unused_attachments, serialised by cleanup_lock,        *)
(* against the remote document and its editor.                             *)
(***************************************************************************)
ImageSlide(n) == [type |-> "image", name |-> n, url |-> 0]
WebsiteSlide(u) == [type |-> "website", name |-> 0, url |-> u]

\* a variant that looks at the file slides only
get_referenced_attachments_FilesOnly(doc) ==
    {sl.name : sl \in {t \in doc : t.type # "website" /\ t.name # 0}}

\* get_referenced_attachments: the names of the non-website slides and the
\* cached filenames of the website slides
get_referenced_attachments(doc) ==
    {sl.name : sl \in {t \in doc : t.type # "website" /\ t.name # 0}}
    \cup {website_cache[sl.url] :
            sl \in {t \in doc : /\ t.type = "website"
                                /\ t.url \in DOMAIN website_cache
                                /\ website_cache[t.url] # 0}}

\* list(attachment_names - referenced_attachments): the model lists a set in
\* ascending order of the names
RECURSIVE ListOf(_)
ListOf(S) ==
    IF S = {} THEN <<>>
    ELSE LET m == CHOOSE x \in S : \A y \in S : x <= y
         IN <<m>> \o ListOf(S \ {m})

\* batch_size of the sweep holding the lock, n names being left: a slice of
\* the rest by min(5, n) is the slice by min(5, len(unused_attachments))
batch_size(kind, n) == IF kind = "immediate" THEN Min(ImmediateBatch, n)
                       ELSE PeriodicBatch

\* the slices unused_attachments[i:i + batch_size] and what follows them
FirstBatch(list, size) == SubSeq(list, 1, Min(size, Len(list)))
AfterBatch(list, size) == SubSeq(list, Min(size, Len(list)) + 1, Len(list))

\* the remote documents a sweep can meet: file attachments 1..n, file slides
\* naming 1..r, possibly a website slide of URL 1, whose screenshot is cached
\* and attached or not
GCInit ==
    /\ \E cached \in BOOLEAN, n \in 0..MaxAtt, r \in 0..MaxRefs, web \in BOOLEAN :
        /\ website_cache = [u \in Urls |-> IF cached /\ u = 1 THEN UploadedName(1)
                                           ELSE 0]
        /\ doc_attachments = (1..n) \cup (IF cached THEN {UploadedName(1)} ELSE {})
        /\ doc_slides = {ImageSlide(i) : i \in 1..r}
                        \cup (IF web THEN {WebsiteSlide(1)} ELSE {})
    /\ doc_rev = 1
    /\ SweepIdle
    /\ capture_queue = <<>>
    /\ capture_in_progress = FALSE
    /\ wpc = "get"
    /\ wurl = 0
    /\ mpc = "idle"
    /\ murl = 0

InitGC == EngineInit /\ GCInit /\ AuxInit

\* the sweep has fetched the document and still holds the lock
Sweeping == gc_pc \in {"batch", "delete", "done"}

\* the answers a request of a sweep can get: success, or a failure
Answers == IF env_steps < MaxEnvSteps THEN BOOLEAN ELSE {TRUE}

\* with cleanup_lock: of either sweep
SweepStart(kind) ==
    /\ cleanup_lock = "none" /\ gc_pc = "idle"
    /\ cleanup_lock' = kind
    /\ gc_pc' = "fetch"
    /\ UNCHANGED <<doc_slides, doc_attachments, doc_rev, attachment_names,
                   unused_attachments, batch, current_rev, issued, env_steps,
                   interfered, get_failed, deleted_referenced>>
    /\ UNCHANGED <<engineVars, capVars, auxVars>>

ImmediateSweepStart == SweepStart("immediate")

PeriodicSweepStart == SweepStart("periodic")

\* the sweep's GET of the document, and the unused list it computes
SweepFetch ==
    /\ gc_pc = "fetch"
    /\ \E ok \in Answers :
        IF ok
        THEN /\ attachment_names' = doc_attachments
             /\ unused_attachments' =
                    ListOf(doc_attachments \ get_referenced_attachments(doc_slides))
             /\ gc_pc' = IF doc_attachments \subseteq get_referenced_attachments(doc_slides)
                         THEN "done" ELSE "batch"
             /\ UNCHANGED <<get_failed, env_steps>>
        ELSE /\ get_failed' = TRUE
             /\ env_steps' = env_steps + 1
             /\ gc_pc' = IF cleanup_lock = "periodic" THEN "sleep" ELSE "done"
             /\ UNCHANGED <<attachment_names, unused_attachments>>
    /\ UNCHANGED <<doc_slides, doc_attachments, doc_rev, cleanup_lock, batch,
                   current_rev, issued, interfered, deleted_referenced>>
    /\ UNCHANGED <<engineVars, capVars, auxVars>>

\* _delete_attachment_batch of the next slice: its GET of a fresh _rev; when
\* the GET is not answered 200 the slice is given up
BatchGet ==
    /\ gc_pc = "batch"
    /\ LET size == batch_size(cleanup_lock, Len(unused_attachments))
           rest == AfterBatch(unused_attachments, size)
       IN /\ unused_attachments' = rest
          /\ \E ok \in Answers :
              IF ok
              THEN /\ batch' = FirstBatch(unused_attachments, size)
                   /\ current_rev' = doc_rev
                   /\ gc_pc' = "delete"
                   /\ UNCHANGED <<get_failed, env_steps>>
              ELSE /\ get_failed' = TRUE
                   /\ env_steps' = env_steps + 1
                   /\ gc_pc' = IF rest = <<>> THEN "done" ELSE "batch"
                   /\ UNCHANGED <<batch, current_rev>>
    /\ UNCHANGED <<doc_slides, doc_attachments, doc_rev, cleanup_lock,
                   attachment_names, issued, interfered,
                   deleted_referenced>>
    /\ UNCHANGED <<engineVars, capVars, auxVars>>

\* the store accepts DELETE name?rev= when the revision is the document's
Accepts(name, rev) == rev = doc_rev /\ name \in doc_attachments

\* one DELETE of the batch loop; a request that fails or is refused is
\* logged and the loop goes on
DeleteAttachment ==
    /\ gc_pc = "delete" /\ batch # <<>>
    /\ LET name == Head(batch) IN
        /\ issued' = [issued EXCEPT ![name] = Min(@ + 1, MaxIssued)]
        /\ \E delivered \in Answers :
            IF delivered /\ Accepts(name, current_rev)
            THEN /\ doc_attachments' = doc_attachments \ {name}
                 /\ doc_rev' = doc_rev + 1
                 /\ current_rev' = doc_rev + 1
                 /\ deleted_referenced' =
                        (deleted_referenced
                         \/ name \in get_referenced_attachments(doc_slides))
                 /\ UNCHANGED <<interfered, env_steps>>
            ELSE /\ interfered' = TRUE
                 /\ env_steps' = IF delivered THEN env_steps ELSE env_steps + 1
                 /\ UNCHANGED <<doc_attachments, doc_rev, current_rev,
                                deleted_referenced>>
    /\ batch' = Tail(batch)
    /\ gc_pc' = IF Tail(batch) # <<>> THEN "delete"
                ELSE IF unused_attachments # <<>> THEN "batch"
                ELSE "done"
    /\ UNCHANGED <<doc_slides, cleanup_lock, attachment_names,
                   unused_attachments, get_failed>>
    /\ UNCHANGED <<engineVars, capVars, auxVars>>

\* leaving the with block: the lock is released and the locals are gone
ReleaseLock ==
    /\ cleanup_lock' = "none"
    /\ gc_pc' = "idle"
    /\ attachment_names' = {}
    /\ unused_attachments' = <<>>
    /\ batch' = <<>>
    /\ current_rev' = 0
    /\ issued' = [a \in Names |-> 0]
    /\ interfered' = FALSE
    /\ get_failed' = FALSE
    /\ UNCHANGED <<doc_slides, doc_attachments, doc_rev, env_steps,
                   deleted_referenced>>
    /\ UNCHANGED <<engineVars, capVars, auxVars>>

SweepEnd ==
    /\ gc_pc = "done"
    /\ ReleaseLock

\* the periodic sweep whose fetch failed sleeps 900 s inside the with block
PeriodicSleepEnd ==
    /\ gc_pc = "sleep"
    /\ ReleaseLock

\* the editor saves the document with one more slide, of an attachment
EditorAddSlide ==
    /\ env_steps < MaxEnvSteps
    /\ \E n \in doc_attachments \cap AttNames :
        /\ ImageSlide(n) \notin doc_slides
        /\ doc_slides' = doc_slides \cup {ImageSlide(n)}
    /\ doc_rev' = doc_rev + 1
    /\ env_steps' = env_steps + 1
    /\ interfered' = (interfered \/ Sweeping)
    /\ UNCHANGED <<doc_attachments, cleanup_lock, gc_pc, attachment_names,
                   unused_attachments, batch, current_rev, issued,
                   get_failed, deleted_referenced>>
    /\ UNCHANGED <<engineVars, capVars, auxVars>>

\* the editor saves the document with one slide less
EditorRemoveSlide ==
    /\ env_steps < MaxEnvSteps
    /\ \E sl \in doc_slides : doc_slides' = doc_slides \ {sl}
    /\ doc_rev' = doc_rev + 1
    /\ env_steps' = env_steps + 1
    /\ interfered' = (interfered \/ Sweeping)
    /\ UNCHANGED <<doc_attachments, cleanup_lock, gc_pc, attachment_names,
                   unused_attachments, batch, current_rev, issued,
                   get_failed, deleted_referenced>>
    /\ UNCHANGED <<engineVars, capVars, auxVars>>

NextGC ==
    \/ ImmediateSweepStart \/ PeriodicSweepStart
    \/ SweepFetch \/ BatchGet \/ DeleteAttachment
    \/ SweepEnd \/ PeriodicSleepEnd
    \/ EditorAddSlide \/ EditorRemoveSlide

SpecGC == InitGC /\ [][NextGC]_vars

(***************************************************************************)
(* Claims about the attachment sweeps.                                     *)
(***************************************************************************)
\* a slide of the remote document references the name
Referenced(a) ==
    \E sl \in doc_slides :
        \/ sl.type # "website" /\ sl.name = a
        \/ sl.type = "website" /\ a # 0 /\ website_cache[sl.url] = a

\* the sweep has ended, no writer touched the document while it ran and the
\* store answered each of its requests with success
CleanSweepDone == gc_pc = "done" /\ ~interfered /\ ~get_failed

\* C9: no DELETE of a sweep removes an attachment that a slide of the
\* document references at the moment of the DELETE
C9_NeverDeletesReferenced == ~deleted_referenced

\* C10: a sweep with no concurrent writer and every request accepted issues
\* one DELETE for each attachment of the fetched document that no slide
\* references and none for any other name, and leaves the referenced
\* attachments in place, whatever the number of unreferenced attachments and
\* for both batch sizes
C10_DeletesExactlyUnreferenced ==
    CleanSweepDone =>
        /\ \A a \in Names :
            issued[a] = IF a \in attachment_names /\ ~Referenced(a) THEN 1 ELSE 0
        /\ doc_attachments = {a \in attachment_names : Referenced(a)}

\* C10 witness: an immediate sweep over more unreferenced attachments than
\* one batch holds, and a referenced attachment, has ended undisturbed
C10_Witness ==
    /\ CleanSweepDone
    /\ cleanup_lock = "immediate"
    /\ Cardinality(attachment_names \ doc_attachments) > ImmediateBatch
    /\ doc_attachments # {}

(***************************************************************************)
(* The website cache of the Pillow player                                  *)
(* (roles/app/files/pillow_slideshow.py, fetch_and_process_website_slide). *)
(* A canvas is named by the time of the capture that produced it.          *)
(***************************************************************************)
\* hashlib.md5(url).hexdigest(): one key per URL (md5 taken as injective)
cache_key(u) == u

IsFresh_Never(ts, t) == FALSE

\* time.time() - cached_item['timestamp'] < WEBSITE_CACHE_EXPIRY_SECONDS
IsFresh(ts, t) == t - ts < WEBSITE_CACHE_EXPIRY_SECONDS

CachedKeys(cache) == {k \in DOMAIN cache : cache[k] # 0}

\* min(website_screenshot_cache, key=lambda k: ...[k]['timestamp'])
oldest_key(cache) ==
    CHOOSE k \in CachedKeys(cache) :
        \A j \in CachedKeys(cache) : cache[k] <= cache[j]

\* the cache update after a successful capture at time t
CacheUpdate(cache, k, t) ==
    LET kept == IF Cardinality(CachedKeys(cache)) >= MAX_WEBSITE_CACHE_ENTRIES
                THEN [cache EXCEPT ![oldest_key(cache)] = 0]
                ELSE cache
    IN  [kept EXCEPT ![k] = t]

\* one call for a slide of URL u; ok: capture_website returns a canvas.  The
\* capture takes time, so the entry's timestamp is later than the lookup.
fetch_and_process_website_slide(u, ok) ==
    LET k    == cache_key(u)
        had  == website_screenshot_cache[k] # 0
        hit  == had /\ IsFresh(website_screenshot_cache[k], wnow)
    IN  /\ hit \/ wnow < MaxClock
        /\ prev_call' = last_call
        /\ IF hit
           THEN /\ last_call' = [url |-> u, at |-> wnow, had |-> TRUE,
                                 captured |-> FALSE, ok |-> FALSE,
                                 ts |-> website_screenshot_cache[k],
                                 canvas |-> website_screenshot_cache[k]]
                /\ UNCHANGED <<website_screenshot_cache, wnow>>
           ELSE /\ wnow' = wnow + 1
                /\ website_screenshot_cache' =
                       IF ok THEN CacheUpdate(website_screenshot_cache, k, wnow')
                             ELSE website_screenshot_cache
                /\ last_call' = [url |-> u, at |-> wnow, had |-> had,
                                 captured |-> TRUE, ok |-> ok,
                                 ts |-> website_screenshot_cache'[k],
                                 canvas |-> IF ok THEN wnow' ELSE 0]
        /\ UNCHANGED <<engineVars, capVars, gcVars, textVars, durVars, queueVars, ageVars, listenVars, procVars, pubVars, statusVars, vidVars, fadeVars, scrollVars, uploadVars, quiesceVars>>

ProcessWebsiteSlide ==
    \E u \in PUrls, ok \in BOOLEAN : fetch_and_process_website_slide(u, ok)

\* time passes between two calls
WebTick ==
    /\ wnow < MaxClock
    /\ wnow' = wnow + 1
    /\ UNCHANGED <<website_screenshot_cache, prev_call, last_call>>
    /\ UNCHANGED <<engineVars, capVars, gcVars, textVars, durVars, queueVars, ageVars, listenVars, procVars, pubVars, statusVars, vidVars, fadeVars, scrollVars, uploadVars, quiesceVars>>

NextWebsite == ProcessWebsiteSlide \/ WebTick

SpecWebsite == Init /\ [][NextWebsite]_vars

\* the last two calls were for one URL
SameUrlTwice == prev_call.url # 0 /\ last_call.url = prev_call.url

\* the entry the first call left was older than the TTL when the second call
\* looked it up
ExpiredBetween ==
    /\ prev_call.ts # 0
    /\ last_call.at - prev_call.ts >= WEBSITE_CACHE_EXPIRY_SECONDS

Captures(c) == IF c.captured THEN 1 ELSE 0

\* C11 as stated: two calls of fetch_and_process_website_slide for the same
\* URL with no TTL expiry between them perform exactly one capture_website
\* call, and the second call returns the cached canvas.
C11_ExactlyOneCapture ==
    (SameUrlTwice /\ ~ExpiredBetween)
        => /\ Captures(prev_call) + Captures(last_call) = 1
           /\ ~last_call.captured
           /\ last_call.canvas # 0

\* C11 amended: when the first of two calls for one URL returns a canvas (its
\* capture succeeds, or it is served from the cache) and the entry does not
\* expire before the second, the second call captures nothing and returns the
\* canvas of the first; when the first call's capture fails and nothing is
\* cached for the URL, the second call captures again.
C11_SecondCallServedFromCache ==
    SameUrlTwice =>
        /\ (prev_call.canvas # 0 /\ ~ExpiredBetween)
               => /\ ~last_call.captured
                  /\ last_call.canvas = prev_call.canvas
                  /\ Captures(prev_call) + Captures(last_call) <= 1
        /\ (prev_call.canvas = 0 /\ ~prev_call.had) => last_call.captured

C11_Witness ==
    /\ SameUrlTwice
    /\ prev_call.captured /\ prev_call.ok
    /\ ~last_call.captured
    /\ last_call.canvas = prev_call.canvas

\* C12: when capture_website fails for a URL that has a cache entry, also one
\* older than the TTL, the call returns the cached canvas (the slide is kept).
C12_FailedCaptureFallsBack ==
    (last_call.captured /\ ~last_call.ok /\ last_call.had)
        => last_call.canvas # 0

(***************************************************************************)
(* The text cache (files/slideshow.py, get_cached_text_surface).  A        *)
(* surface is named by the minute it was rendered in.                      *)
(***************************************************************************)
TextEntries(cache) == {k \in DOMAIN cache : cache[k] # 0}

\* if len(text_cache) > 50: text_cache.clear(); text_cache[cache_key] = ...
TextStore(cache, k, m) ==
    LET kept == IF Cardinality(TextEntries(cache)) > TextCacheLimit
                THEN [j \in DOMAIN cache |-> 0]
                ELSE cache
    IN  [kept EXCEPT ![k] = m]

\* one call with force_refresh = False, as the hold loops make it
get_cached_text_surface(k) ==
    LET force == has_datetime(k) /\ last_datetime_minute # minute
        hit   == ~force /\ text_cache[k] # 0
    IN  /\ last_datetime_minute' =
               IF force THEN minute ELSE last_datetime_minute
        /\ text_cache' = IF hit THEN text_cache
                                ELSE TextStore(text_cache, k, minute)
        /\ last_text' = [key |-> k, at |-> minute, rendered |-> ~hit,
                         surface |-> text_cache'[k]]
        /\ UNCHANGED minute
        /\ UNCHANGED <<engineVars, capVars, gcVars, webVars, durVars, queueVars, ageVars, listenVars, procVars, pubVars, statusVars, vidVars, fadeVars, scrollVars, uploadVars, quiesceVars>>

RequestText == \E k \in TextKeys : get_cached_text_surface(k)

\* the wall clock reaches the next minute
MinuteTick ==
    /\ minute < MaxMinute
    /\ minute' = minute + 1
    /\ UNCHANGED <<text_cache, last_datetime_minute, last_text>>
    /\ UNCHANGED <<engineVars, capVars, gcVars, webVars, durVars, queueVars, ageVars, listenVars, procVars, pubVars, statusVars, vidVars, fadeVars, scrollVars, uploadVars, quiesceVars>>

NextText == RequestText \/ MinuteTick

SpecText == Init /\ [][NextText]_vars

\* C13: for a text with {datetime}, also when several such texts with
\* different cache keys are requested in one minute, get_cached_text_surface
\* never returns a surface rendered in an earlier wall-clock minute.
C13_NeverStaleMinute ==
    (last_text.key # 0 /\ has_datetime(last_text.key))
        => last_text.surface = last_text.at

\* C14: the text cache never holds more entries than its capacity.
C14_AtMostCapacity ==
    Cardinality(TextEntries(text_cache)) <= TextCacheLimit

(***************************************************************************)
(* The size of website_cache (files/slideshow.py), checked in SpecCapture. *)
(***************************************************************************)
\* C15: the website cache holds at most MAX_WEBSITE_CACHE_ENTRIES entries.
C15_WebsiteCacheBounded ==
    Cardinality({u \in Urls : website_cache[u] # 0})
        <= MAX_WEBSITE_CACHE_ENTRIES

(***************************************************************************)
(* The main loop again: the later claims about it.                         *)
(***************************************************************************)
\* the main loop shows the NoContent screen and no fetch is under way
IdleInNoContent == Running /\ pc = "top" /\ state = "default" /\ rf = "none"

\* C16: an engine in NoContent attempts the document fetch again, whether or
\* not a change notification arrives (main loop scheduled fairly), unless it
\* is shut down first.
C16_NoContentRefetches == IdleInNoContent ~> (rf # "none" \/ ~Running)

\* C17: when the process has ended on a requested termination (signal, pygame
\* QUIT, ESC), the release function of every video slide of the live list has
\* run.
C17_ReleasedBeforeExit ==
    (pc = "exited" /\ exit_cause \in {"quit", "signal"})
        => ~SomeUnreleased(released, slides)

(***************************************************************************)
(* The hold time of a slide (files/slideshow.py, validate_slide_duration). *)
(* Numbers are whole seconds: a fraction compares with 0 and with 300 as   *)
(* one of its whole neighbours does.                                       *)
(***************************************************************************)
Numbers == -2..MaxDurationInput

\* the values a JSON document can carry in the field, and a missing field
DurationInputs ==
    {PyNone}
    \cup {Value("int", n, "", "") : n \in Numbers}
    \cup {Value("str", n, "", "number") : n \in Numbers}
    \cup {Value("str", 0, "", t) : t \in {"nan", "inf", "-inf", "abc"}}
    \cup {Value("bool", b, "", "") : b \in {0, 1}}
    \cup {Value("list", 0, "", "")}

Raised == Value("raise", 0, "", "")

\* float(duration) of a str: the number it spells, nan, inf or -inf for the
\* spellings Python accepts, ValueError for any other text
float(d) ==
    CASE d.text = "number" -> Value("float", d.v, "", "")
      [] d.text \in {"nan", "inf", "-inf"} -> Value("float", 0, d.text, "")
      [] OTHER -> Raised

\* duration <= 0 and duration > 300 of Python numbers (bool is an int; every
\* comparison with nan is False)
LessEq(x, n) ==
    CASE x.special = "" -> x.v <= n
      [] x.special = "-inf" -> TRUE
      [] OTHER -> FALSE

Greater(x, n) ==
    CASE x.special = "" -> x.v > n
      [] x.special = "inf" -> TRUE
      [] OTHER -> FALSE

validate_slide_duration(d) ==
    IF d.kind = "none" THEN Value("int", default_duration, "", "")
    ELSE LET c == IF d.kind = "str" THEN float(d) ELSE d
         IN  IF c.kind = "raise"
                 THEN Value("int", default_duration, "", "")
             ELSE IF c.kind \notin {"int", "float", "bool"}
                 THEN Value("int", default_duration, "", "")
             ELSE IF LessEq(c, 0)
                 THEN Value("int", default_duration, "", "")
             ELSE IF Greater(c, MaxDuration)
                 THEN Value("int", MaxDuration, "", "")
             ELSE c

\* a slide whose document carries some duration is about to be held
DurInit ==
    /\ duration \in DurationInputs
    /\ slide_duration = NotValidated

InitDuration ==
    EngineInit /\ CapInit /\ GCIdle /\ WebInit /\ TextInit /\ DurInit /\ QueueIdle /\ AgeInit /\ ListenInit /\ ProcIdle /\ PubIdle /\ StatusIdle /\ VidIdle /\ FadeIdle /\ ScrollIdle /\ UploadIdle /\ QuiesceIdle

\* slide_duration = validate_slide_duration(slide_data.get('duration'), ...)
ValidateDuration ==
    /\ slide_duration = NotValidated
    /\ slide_duration' = validate_slide_duration(duration)
    /\ UNCHANGED duration
    /\ UNCHANGED <<engineVars, capVars, gcVars, webVars, textVars, queueVars, ageVars, listenVars, procVars, pubVars, statusVars, vidVars, fadeVars, scrollVars, uploadVars, quiesceVars>>

NextDuration == ValidateDuration

SpecDuration == InitDuration /\ [][NextDuration]_vars

\* C18: the hold time is always a number of seconds in (0, 300].
C18_HoldTimeInRange ==
    slide_duration # NotValidated
        => /\ slide_duration.special = ""
           /\ 0 < slide_duration.v /\ slide_duration.v <= MaxDuration

\* C19: while the process runs, no video slide of the live list has had its
\* release function called: its decoder is open and its temp file exists on
\* every pass.
C19_LiveVideoStaysOpen ==
    Running => \A i \in 1..Len(released) : released[i] = 0

\* a hold loop or the fade-in is at the test of the flag
InHoldOrFade == pc \in {"vhold", "fade", "ihold"} /\ rf = "none"

\* the hold loop ends because time.time() - start_time has reached
\* slide_duration
HoldExpired == held /\ pc \in {"vhold", "ihold"} /\ pc' # pc /\ rf' = "none"

C21_LockHeldOnlyForRequests == cleanup_lock = "periodic" => gc_pc # "sleep"

(***************************************************************************)
(* The website cache and capture_lock (files/slideshow.py), checked in     *)
(* SpecCapture.                                                            *)
(***************************************************************************)
\* the steps that run inside a `with capture_lock:` block
UnderCaptureLock == QueueWebsiteCapture \/ WorkerLock \/ WorkerFinally

\* C22: every lookup and every insert of the website cache is made while the
\* acting thread holds a lock.
C22_CacheAccessLocked ==
    [][ (FetchContentStart \/ website_cache' # website_cache)
            => UnderCaptureLock ]_vars

(***************************************************************************)
(* The pre-capture hint (files/slideshow.py, queue_website_capture) with   *)
(* the worker that empties the queue.                                      *)
(***************************************************************************)
\* what queue_website_capture reads of a slide: its type and its url
\* (0: the slide has none)
QueueSlides ==
    {[type |-> "image", url |-> 0], [type |-> "website", url |-> 0]}
    \cup {[type |-> "website", url |-> u] : u \in Urls}

QueueLists == UNION {[1..n -> QueueSlides] : n \in 1..MaxSlides}

look_ahead == 2

next_index_OneAhead(i, n) == (i + 1) % n

\* next_index = (current_index + look_ahead) % len(slides_list)
next_index(i, n) == (i + look_ahead) % n

\* Queue(maxsize=1)
QueueMaxsize == 1

queue_website_capture(list, i) ==
    LET next_slide == list[next_index(i, Len(list)) + 1]
    IN  /\ IF /\ ~capture_in_progress /\ capture_queue = <<>>
              /\ next_slide.type = "website"
              /\ next_slide.url # 0
           THEN capture_queue' = Append(capture_queue, next_slide.url)
           ELSE UNCHANGED capture_queue
        /\ current_index' = i
        /\ UNCHANGED <<website_cache, capture_in_progress, wpc, wurl, mpc, murl>>
        /\ UNCHANGED slides_list
        /\ UNCHANGED <<engineVars, gcVars, webVars, textVars, durVars, ageVars, listenVars, procVars, pubVars, statusVars, vidVars, fadeVars, scrollVars, uploadVars, quiesceVars>>

\* the main loop starts slide i of its list
SlideStartQueues ==
    \E i \in 0..(Len(slides_list) - 1) : queue_website_capture(slides_list, i)

\* the main loop plays some list
QueueInit ==
    /\ slides_list \in QueueLists
    /\ current_index = -1

InitQueue ==
    EngineInit /\ CapInit /\ GCIdle /\ WebInit /\ TextInit /\ DurIdle /\ QueueInit /\ AgeInit /\ ListenInit /\ ProcIdle /\ PubIdle /\ StatusIdle /\ VidIdle /\ FadeIdle /\ ScrollIdle /\ UploadIdle /\ QuiesceIdle

NextQueue ==
    \/ SlideStartQueues
    \/ WorkerGet \/ WorkerLock \/ WorkerCaptureDone \/ WorkerFinally

SpecQueue == InitQueue /\ [][NextQueue]_vars

\* the slide two positions after slide i of the list, wrapping at its end
TwoAhead(list, i) ==
    IF i + 2 < Len(list) THEN list[i + 3]
    ELSE IF i + 2 < 2 * Len(list) THEN list[i + 3 - Len(list)]
    ELSE list[i + 3 - 2 * Len(list)]

\* C23: at the start of slide i, a request for the URL of slide (i+2) mod n is
\* put into the queue if and only if that slide is a website slide with a
\* URL, no capture is in progress and the queue is empty; the put finds the
\* queue empty, so it does not block; the queue never holds more than one
\* request.
C23_QueuesTwoAhead ==
    [][ /\ Len(capture_queue') <= QueueMaxsize
        /\ SlideStartQueues =>
              LET t == TwoAhead(slides_list, current_index')
              IN  /\ (capture_queue' # capture_queue)
                         <=> /\ t.type = "website" /\ t.url # 0
                             /\ ~capture_in_progress
                             /\ capture_queue = <<>>
                  /\ (capture_queue' # capture_queue)
                         => capture_queue' = <<t.url>>
      ]_vars

\* C23 witness: the start of the last slide of a three-slide list has queued
\* the URL of the second slide
C23_Witness ==
    /\ Len(slides_list) = 3 /\ current_index = 2
    /\ slides_list[1].url # slides_list[2].url
    /\ slides_list[2].url # 0
    /\ capture_queue = <<slides_list[2].url>>

(***************************************************************************)
(* The age of the entries of website_cache (files/slideshow.py), checked   *)
(* in SpecCapture.                                                         *)
(***************************************************************************)
\* C24: a website cache entry whose age is at least the TTL is not returned
\* as a hit.
C24_ExpiredEntryIsNoHit == \A u \in Urls : u \in expired => ~CacheHit(u)

(***************************************************************************)
(* The change-feed listener (files/slideshow.py, watch_changes).           *)
(***************************************************************************)
\* the id of the device's document
tv_uuid == 1

\* the lines response.iter_lines() can yield: the empty keep-alive line of
\* the heartbeat, bytes that are not UTF-8, text that is not JSON, a JSON
\* object with or without "id", and the JSON values that are no object
BlankLine == Line(TRUE, "blank", 0, FALSE)

Lines ==
    {BlankLine, Line(FALSE, "invalid", 0, FALSE), Line(TRUE, "invalid", 0, FALSE)}
    \cup {Line(TRUE, "object", i, i # 0) : i \in 0..MaxDocIds}
    \cup {Line(TRUE, j, 0, FALSE) : j \in {"number", "null"}}
    \cup {Line(TRUE, j, 0, h) : j \in {"string", "array"}, h \in BOOLEAN}

\* what the body of the for loop does with a line: "skip" (if line: is
\* false), "continue" (the inner except), "set", "ignore", or "raise" (an
\* exception the inner except does not catch)
HandleLine_SetsOnAnyObject(l) ==
    IF l.json = "object" THEN "set" ELSE "skip"

HandleLine(l) ==
    IF l.json = "blank" THEN "skip"
    ELSE IF ~l.utf8 THEN "continue"
    ELSE IF l.json = "invalid" THEN "continue"
    ELSE IF l.json \in {"number", "null"} THEN "raise"
    ELSE IF l.json \in {"string", "array"}
        THEN IF l.has_id THEN "raise" ELSE "ignore"
    ELSE IF l.has_id /\ l.id = tv_uuid THEN "set"
    ELSE "ignore"

\* session.get(url, params=params, stream=True, timeout=30): a response of
\* any status, or an exception
ListenerConnect ==
    /\ lpc = "connect"
    /\ \E connected \in BOOLEAN :
        lpc' = IF connected THEN "read" ELSE "backoff"
    /\ UNCHANGED <<prev_line, last_line>>
    /\ UNCHANGED <<engineVars, capVars, gcVars, webVars, textVars, durVars,
                   queueVars, ageVars, procVars, pubVars, statusVars, vidVars, fadeVars, scrollVars, uploadVars, quiesceVars>>

\* one iteration of for line in response.iter_lines()
ListenerLine ==
    /\ lpc = "read"
    /\ \E l \in Lines :
        /\ prev_line' = last_line
        /\ last_line' = l
        /\ lpc' = IF HandleLine(l) = "raise" THEN "backoff" ELSE "read"
        /\ IF HandleLine(l) = "set"
           THEN need_refetch' = TRUE /\ pending' = TRUE
           ELSE UNCHANGED <<need_refetch, pending>>
    /\ UNCHANGED <<state, slides, current_slide_index, slide_index, slide_data,
                   pc, rf, held, fetched, released, leaked, twice, exit_cause>>
    /\ UNCHANGED <<capVars, gcVars, webVars, textVars, durVars, queueVars,
                   ageVars, procVars, pubVars, statusVars, vidVars, fadeVars, scrollVars, uploadVars, quiesceVars>>

\* iter_lines() raises: the connection breaks or the read times out
ListenerStreamError ==
    /\ lpc = "read"
    /\ lpc' = "backoff"
    /\ UNCHANGED <<prev_line, last_line>>
    /\ UNCHANGED <<engineVars, capVars, gcVars, webVars, textVars, durVars,
                   queueVars, ageVars, procVars, pubVars, statusVars, vidVars, fadeVars, scrollVars, uploadVars, quiesceVars>>

\* iter_lines() is exhausted: the server closed the stream, or the response
\* was an error page; the while loop starts over
ListenerStreamEnds ==
    /\ lpc = "read"
    /\ lpc' = "connect"
    /\ UNCHANGED <<prev_line, last_line>>
    /\ UNCHANGED <<engineVars, capVars, gcVars, webVars, textVars, durVars,
                   queueVars, ageVars, procVars, pubVars, statusVars, vidVars, fadeVars, scrollVars, uploadVars, quiesceVars>>

\* time.sleep(30) of an except clause is over
ListenerBackoffEnd ==
    /\ lpc = "backoff"
    /\ lpc' = "connect"
    /\ UNCHANGED <<prev_line, last_line>>
    /\ UNCHANGED <<engineVars, capVars, gcVars, webVars, textVars, durVars,
                   queueVars, ageVars, procVars, pubVars, statusVars, vidVars, fadeVars, scrollVars, uploadVars, quiesceVars>>

NextListener ==
    \/ ListenerConnect \/ ListenerLine \/ ListenerStreamError
    \/ ListenerStreamEnds \/ ListenerBackoffEnd

SpecListener == Init /\ [][NextListener]_vars

\* a line that is a change event of the device's document
IsOwnChange(l) == l.utf8 /\ l.json = "object" /\ l.has_id /\ l.id = tv_uuid

\* a heartbeat or blank line, a line that does not parse, an event of
\* another document
IsOtherLine(l) ==
    \/ l.json = "blank"
    \/ ~l.utf8
    \/ l.json = "invalid"
    \/ l.json = "object" /\ l.id # tv_uuid

\* C25: watch_changes sets the flag only for a line that parses to a change
\* event of the device's document; a heartbeat or blank line, an unparsable
\* line and an event of another document leave the flag as it is, and the
\* listener reads on after each of them.
C25_SetsOnlyOnOwnChange ==
    [][ ListenerLine =>
          /\ (need_refetch' # need_refetch) => IsOwnChange(last_line')
          /\ IsOwnChange(last_line') => need_refetch'
          /\ IsOtherLine(last_line')
                 => (need_refetch' = need_refetch /\ lpc' = "read")
      ]_vars

\* C25 witness: after an unparsable line the listener has read the change
\* event of the device's document and set the flag
C25_Witness ==
    /\ prev_line.json = "invalid" /\ IsOwnChange(last_line)
    /\ need_refetch /\ lpc = "read"

\* C26: the listener opens a new connection after a loss of the old one only
\* when it has waited the backoff.
C26_ReconnectsAfterBackoff ==
    [][ (lpc # "connect" /\ lpc' = "connect") => lpc = "backoff" ]_vars

(***************************************************************************)
(* Who clears the refetch flag.                                            *)
(***************************************************************************)
\* C27: need_refetch is cleared by the main loop only, at its
\* need_refetch.clear(); the listener's step never lowers it.  (When the
\* process ends the flag is gone with it.)
C27_OnlyMainLoopClears ==
    [][ (need_refetch /\ ~need_refetch') => (RefetchClear \/ ~Running') ]_vars

\* C27 witness: the main loop has just cleared a flag the listener had set
\* and has not sent its request yet
C27_Witness == Running /\ rf = "fetch" /\ pending /\ ~need_refetch

(***************************************************************************)
(* The order of the slides and the range of the index.                     *)
(***************************************************************************)
\* the positions of the main loop inside while slide_index < len(slides)
InSlideLoop == pc \in {"slide", "vhold", "fade", "ihold", "iend"}

\* a slide has ended in state "slideshow" with no refetch under way and the
\* flag clear, and the loop goes on to the next slide
SlideEnds ==
    /\ pc \in {"vhold", "iend"} /\ pc' = "slide"
    /\ state = "slideshow" /\ rf = "none" /\ ~need_refetch

\* C28: while the slideshow plays with no refetch, the slide after slide i
\* is slide i + 1, and slide 0 after the last one, for as long as it plays;
\* and inside the slide loop the index is always an index of the list.
C28_InOrderInRange ==
    [][ /\ InSlideLoop' => (0 <= slide_index' /\ slide_index' < Len(slides'))
        /\ SlideEnds =>
             /\ slides' = slides
             /\ slide_index' = IF slide_index = Len(slides) - 1 THEN 0
                               ELSE slide_index + 1
             /\ current_slide_index' = slide_index'
      ]_vars

\* C28 witness: the last slide of a list of two, a video, has been played to
\* its end and the loop is back at slide 0
C28_Witness ==
    /\ pc = "slide" /\ state = "slideshow" /\ slide_index = 0
    /\ Len(slides) = 2 /\ released[2] = 1 /\ ~need_refetch /\ ~pending

(***************************************************************************)
(* The Pillow player's process_slides_from_doc                             *)
(* (roles/app/files/pillow_slideshow.py).                                  *)
(***************************************************************************)
\* a slide definition together with what happens when it is processed.
\* base: the attachment is fetched and decoded ("ok") or not ("fail").
\* text: the slide has no text overlay ("none"), the overlay renders ("ok"),
\* render_text_to_surface returns None because no font loads ("unrendered"),
\* or it raises, as hex_to_rgb does for a colour that is no hex string
\* ("raises")
ProcDefs ==
    {[type |-> "image", base |-> "fail", text |-> "none"]}
    \cup {[type |-> "image", base |-> "ok", text |-> t] :
              t \in {"none", "ok", "unrendered", "raises"}}
    \cup {[type |-> "video", base |-> b, text |-> "none"] : b \in {"ok", "fail"}}

ProcDocs == UNION {[1..n -> ProcDefs] : n \in 0..MaxSlides}

\* the value None of a failed slide
NoContent == [index |-> 0, type |-> "none", overlay |-> FALSE]

\* the processed slide: its position in the document, its type, and whether
\* the overlay was composited onto processed_image
Content(i, d, overlay) == [index |-> i, type |-> d.type, overlay |-> overlay]

\* the for loop over text_overlays catches nothing itself: an exception of
\* get_cached_text_surface reaches the function's except Exception, and the
\* function returns None
fetch_and_process_image_slide(i, d) ==
    IF d.base = "fail" THEN NoContent
    ELSE IF d.text = "raises" THEN NoContent
    ELSE Content(i, d, d.text = "ok")

fetch_and_prepare_video_slide(i, d) ==
    IF d.base = "fail" THEN NoContent ELSE Content(i, d, FALSE)

\* one iteration of for i, slide_def_orig in enumerate(raw_slides)
ProcessSlide ==
    /\ ppos < Len(raw_slides)
    /\ LET d == raw_slides[ppos + 1]
           c == IF d.type = "video"
                THEN fetch_and_prepare_video_slide(ppos + 1, d)
                ELSE fetch_and_process_image_slide(ppos + 1, d)
       IN  processed_slides' = IF c = NoContent THEN processed_slides
                               ELSE Append(processed_slides, c)
    /\ ppos' = ppos + 1
    /\ UNCHANGED raw_slides
    /\ UNCHANGED <<engineVars, capVars, gcVars, webVars, textVars, durVars,
                   queueVars, ageVars, listenVars, pubVars, statusVars, vidVars, fadeVars, scrollVars, uploadVars, quiesceVars>>

\* a call with some document
ProcInit ==
    /\ raw_slides \in ProcDocs
    /\ ppos = 0
    /\ processed_slides = <<>>

InitProcess ==
    EngineInit /\ CapInit /\ GCIdle /\ WebInit /\ TextInit /\ DurIdle /\ QueueIdle /\ AgeInit /\ ListenInit /\ ProcInit /\ PubIdle /\ StatusIdle /\ VidIdle /\ FadeIdle /\ ScrollIdle /\ UploadIdle /\ QuiesceIdle

NextProcess == ProcessSlide

SpecProcess == InitProcess /\ [][NextProcess]_vars

\* the positions 1..n of a document whose base image or video is produced,
\* in document order
RECURSIVE Produced(_, _)
Produced(doc, n) ==
    IF n = 0 THEN <<>>
    ELSE IF doc[n].base = "ok" THEN Append(Produced(doc, n - 1), n)
    ELSE Produced(doc, n - 1)

\* the document positions of the slides of a processed list
Indexes(list) == [j \in 1..Len(list) |-> list[j].index]

\* C29: when the loop has gone through the first n slides of the document,
\* the list holds the slides among them whose base image or video was
\* produced, in document order, and no others.
C29_ReturnsProducedInOrder ==
    Indexes(processed_slides) = Produced(raw_slides, ppos)

\* C30: a slide whose text overlay failed to render is in the processed
\* list, without the overlay.
C30_TextFailureKeepsSlide ==
    \A i \in 1..ppos :
        (raw_slides[i].base = "ok" /\ raw_slides[i].text \in {"unrendered", "raises"})
            => \E j \in 1..Len(processed_slides) :
                   processed_slides[j].index = i /\ ~processed_slides[j].overlay

(***************************************************************************)
(* The slide record a hold loop reads after a swap.                        *)
(***************************************************************************)
\* C35: the record an iteration of the image/website hold loop reads has an
\* 'image', and the record an iteration of the video hold loop reads has a
\* 'video_cap'.
C35_RecordMatchesLoop ==
    [][ /\ (ImageHoldFrame /\ state # "default") => slide_data.type = "image"
        /\ VideoHoldFrame => slide_data.type = "video"
      ]_vars

(***************************************************************************)
(* The live list while the slideshow plays.                                *)
(***************************************************************************)
\* C38: whenever state is "slideshow" the live slide list is non-empty.
C38_PlayingListNonEmpty == state = "slideshow" => slides # <<>>

\* C38 witness: a refetch in a hold failed or yielded no slide; the engine
\* has left "slideshow" and the old list is still the live one
C38_Witness == Running /\ state = "default" /\ slides # <<>> /\ pc = "top"

(***************************************************************************)
(* The now-playing status and the slide on screen (files/slideshow.py).    *)
(***************************************************************************)
\* the processed lists, as the ids of their slides
IdLists == UNION {[1..n -> 1..MaxSlideIds] : n \in 1..MaxSlides}

\* state becomes "slideshow": first_slide_info is published
PubInit ==
    /\ pub_slides \in IdLists
    /\ pub_index = 0
    /\ pub_pc = "slide"
    /\ published = pub_slides[1]

InitStatus ==
    EngineInit /\ CapInit /\ GCIdle /\ WebInit /\ TextInit /\ DurIdle /\ QueueIdle /\ AgeInit /\ ListenInit /\ ProcIdle /\ PubInit /\ StatusIdle /\ VidIdle /\ FadeIdle /\ ScrollIdle /\ UploadIdle /\ QuiesceIdle

\* slide_data = slides[slide_index]; update_tv_status(current_display_slide_info)
PubSlideStart ==
    /\ pub_pc = "slide"
    /\ published' = pub_slides[pub_index + 1]
    /\ pub_pc' = "hold"
    /\ UNCHANGED <<pub_slides, pub_index>>
    /\ UNCHANGED <<engineVars, capVars, gcVars, webVars, textVars, durVars,
                   queueVars, ageVars, listenVars, procVars, statusVars, vidVars, fadeVars, scrollVars, uploadVars, quiesceVars>>

\* the refetch inside a hold loop adopts a new list and goes on with the
\* hold: slides = new_slides; slide_index = min(slide_index, len(slides) - 1);
\* slide_data = slides[slide_index]; continue
PubHoldSwap ==
    /\ pub_pc = "hold"
    /\ \E new \in IdLists :
        /\ pub_slides' = new
        /\ pub_index' = Min(pub_index, Len(new) - 1)
    /\ UNCHANGED <<pub_pc, published>>
    /\ UNCHANGED <<engineVars, capVars, gcVars, webVars, textVars, durVars,
                   queueVars, ageVars, listenVars, procVars, statusVars, vidVars, fadeVars, scrollVars, uploadVars, quiesceVars>>

\* the hold is over: slide_index += 1, wrapping to 0
PubHoldEnd ==
    /\ pub_pc = "hold"
    /\ pub_index' = IF pub_index + 1 >= Len(pub_slides) THEN 0 ELSE pub_index + 1
    /\ pub_pc' = "slide"
    /\ UNCHANGED <<pub_slides, published>>
    /\ UNCHANGED <<engineVars, capVars, gcVars, webVars, textVars, durVars,
                   queueVars, ageVars, listenVars, procVars, statusVars, vidVars, fadeVars, scrollVars, uploadVars, quiesceVars>>

NextStatus == PubSlideStart \/ PubHoldSwap \/ PubHoldEnd

SpecStatus == InitStatus /\ [][NextStatus]_vars

\* C39: while a slide is shown in its hold loop, the last status publish
\* named that slide.
C39_PublishedIsShown ==
    pub_pc = "hold" => published = pub_slides[pub_index + 1]

(***************************************************************************)
(* Publishing the now-playing status                                       *)
(* (roles/app/files/pillow_slideshow.py, update_tv_status_document).       *)
(***************************************************************************)
\* the main loop calls update_tv_status_document(...)
StatusCall ==
    /\ st_pc = "idle"
    /\ st_pc' = "read"
    /\ puts' = 0
    /\ payload_rev' = 0
    /\ \E current_slide_name \in 1..MaxSlideIds :
        payload_slide' = current_slide_name
    /\ retries_left' = RetryTotal
    /\ UNCHANGED <<status_rev, status_slide>>
    /\ UNCHANGED <<engineVars, capVars, gcVars, webVars, textVars, durVars,
                   queueVars, ageVars, listenVars, procVars, pubVars, vidVars, fadeVars, scrollVars, uploadVars, quiesceVars>>

\* existing_doc = fetch_document(db_url, status_doc_id): the document with
\* its _rev, or None (404, any failure)
StatusRead ==
    /\ st_pc = "read"
    /\ \E got \in BOOLEAN :
        payload_rev' = IF got THEN status_rev ELSE 0
    /\ st_pc' = "write"
    /\ UNCHANGED <<status_rev, status_slide, payload_slide, puts, retries_left>>
    /\ UNCHANGED <<engineVars, capVars, gcVars, webVars, textVars, durVars,
                   queueVars, ageVars, listenVars, procVars, pubVars, vidVars, fadeVars, scrollVars, uploadVars, quiesceVars>>

\* another client writes the status document
StatusOtherWriter ==
    /\ status_rev < MaxRev
    /\ status_rev' = status_rev + 1
    /\ UNCHANGED <<st_pc, status_slide, payload_rev, payload_slide, puts,
                   retries_left>>
    /\ UNCHANGED <<engineVars, capVars, gcVars, webVars, textVars, durVars,
                   queueVars, ageVars, listenVars, procVars, pubVars, vidVars, fadeVars, scrollVars, uploadVars, quiesceVars>>

\* session.put(target_url, json=payload, timeout=10) through the adapter of
\* get_requests_session: one PUT request goes out.  The server stores the
\* document (the revision matches), answers 409 (it does not), or answers
\* 500/502/503/504 or the connection fails; the last two the adapter sends
\* again while Retry has attempts left
StatusPut ==
    /\ st_pc = "write"
    /\ puts' = puts + 1
    /\ \E answer \in {"stored", "unavailable"} :
        IF answer = "stored"
        THEN /\ st_pc' = "idle"
             /\ IF payload_rev = status_rev
                THEN /\ status_rev' = IF status_rev < MaxRev THEN status_rev + 1
                                      ELSE status_rev
                     /\ status_slide' = payload_slide
                ELSE UNCHANGED <<status_rev, status_slide>>  \* 409 Conflict
             /\ UNCHANGED retries_left
        ELSE /\ st_pc' = IF retries_left > 0 THEN "write" ELSE "idle"
             /\ retries_left' = IF retries_left > 0 THEN retries_left - 1 ELSE 0
             /\ UNCHANGED <<status_rev, status_slide>>
    /\ UNCHANGED <<payload_rev, payload_slide>>
    /\ UNCHANGED <<engineVars, capVars, gcVars, webVars, textVars, durVars,
                   queueVars, ageVars, listenVars, procVars, pubVars, vidVars, fadeVars, scrollVars, uploadVars, quiesceVars>>

NextPublish == StatusCall \/ StatusRead \/ StatusOtherWriter \/ StatusPut

SpecPublish == Init /\ [][NextPublish]_vars

\* C32: a call of update_tv_status_document sends at most one PUT.
C32_AtMostOnePut == puts <= 1

(***************************************************************************)
(* process_video and its temp file (files/slideshow.py).                   *)
(***************************************************************************)
\* what can happen in process_video: the GET fails or is not 200; the temp
\* file is created and temp_file.write raises (no space left); the file is
\* written and cv2.VideoCapture raises; the decoder does not open; all is
\* well
VideoOutcomes == {"no_download", "write_raises", "open_raises", "not_opened", "opened"}

VideoDocs == UNION {[1..n -> VideoOutcomes] : n \in 1..MaxSlides}

\* process_video: whether a decoder is returned, and whether the temp file
\* exists when it returns.  temp_file_path is assigned after the write, so
\* the except clause of a failed write knows no path to unlink
process_video(o) ==
    [cap  |-> o = "opened",
     file |-> o \in {"opened", "write_raises"}]

\* one video slide of the for loop of process_slides_from_doc
ProcessVideoSlide ==
    /\ vid_pos < Len(vid_doc)
    /\ LET r == process_video(vid_doc[vid_pos + 1]) IN
        /\ temp_files' = IF r.file THEN temp_files \cup {vid_pos + 1} ELSE temp_files
        /\ vid_slides' = IF r.cap THEN Append(vid_slides, vid_pos + 1) ELSE vid_slides
    /\ vid_pos' = vid_pos + 1
    /\ UNCHANGED vid_doc
    /\ UNCHANGED <<engineVars, capVars, gcVars, webVars, textVars, durVars,
                   queueVars, ageVars, listenVars, procVars, pubVars, statusVars, fadeVars, scrollVars, uploadVars, quiesceVars>>

VidInit ==
    /\ vid_doc \in VideoDocs
    /\ vid_pos = 0
    /\ temp_files = {}
    /\ vid_slides = <<>>

InitVideo ==
    EngineInit /\ CapInit /\ GCIdle /\ WebInit /\ TextInit /\ DurIdle /\ QueueIdle /\ AgeInit /\ ListenInit /\ ProcIdle /\ PubIdle /\ StatusIdle /\ VidInit /\ FadeIdle /\ ScrollIdle /\ UploadIdle /\ QuiesceIdle

NextVideo == ProcessVideoSlide

SpecVideo == InitVideo /\ [][NextVideo]_vars

\* C31: a video slide that is not in the processed list has left no temp
\* file behind.
C31_OmittedVideoLeavesNoFile ==
    \A i \in 1..vid_pos :
        (\A j \in 1..Len(vid_slides) : vid_slides[j] # i) => i \notin temp_files

(***************************************************************************)
(* The transition into a slide.                                            *)
(***************************************************************************)
\* the picture a frame shows: the second canvas at alpha 1, the first at
\* alpha 0, a mixture in between
Shows(f) ==
    IF f.i = FADE_STEPS THEN f.to
    ELSE IF f.i = 0 THEN f.from
    ELSE "mixed"

\* the incoming canvas written as it is
Direct == Frame("incoming", "incoming", FADE_STEPS)

\* for i in range(FADE_STEPS + 1): the last value of i
LastStep_OneShort(i) == i = FADE_STEPS - 1

LastStep(i) == i = FADE_STEPS

FadeInit ==
    /\ fade_player \in {"pillow", "pygame"}
    /\ fade_outgoing \in BOOLEAN
    /\ fade_duration \in {-1, 0, 500}
    /\ fade_interrupts = FALSE
    /\ fade_pc = "start"
    /\ fade_i = 0
    /\ frames_written = 0
    /\ last_frame = NoFrame

InitFade ==
    EngineInit /\ CapInit /\ GCIdle /\ WebInit /\ TextInit /\ DurIdle /\ QueueIdle /\ AgeInit /\ ListenInit /\ ProcIdle /\ PubIdle /\ StatusIdle /\ VidIdle /\ FadeInit /\ ScrollIdle /\ UploadIdle /\ QuiesceIdle

FadeFrame ==
    UNCHANGED <<engineVars, capVars, gcVars, webVars, textVars, durVars,
                queueVars, ageVars, listenVars, procVars, pubVars, statusVars,
                vidVars, scrollVars, uploadVars, quiesceVars>>

\* Pillow: if outgoing_slide_canvas and transition_time_ms > 0:
\* perform_fade_transition(...), else the incoming canvas is written.
\* files/slideshow.py: if incoming_transition_duration_ms > 0 the fade-in
\* loop runs, else the hold loop draws the image
TransitionStart ==
    /\ fade_pc = "start"
    /\ IF fade_player = "pillow" /\ fade_outgoing /\ fade_duration > 0
       THEN fade_pc' = "out" /\ UNCHANGED <<frames_written, last_frame>>
       ELSE IF fade_player = "pygame" /\ fade_duration > 0
       THEN fade_pc' = "in" /\ UNCHANGED <<frames_written, last_frame>>
       ELSE /\ fade_pc' = "done"
            /\ frames_written' = 1
            /\ last_frame' = Direct
    /\ UNCHANGED <<fade_player, fade_outgoing, fade_duration, fade_interrupts, fade_i>>
    /\ FadeFrame

\* one pass of the fade-out loop of perform_fade_transition
FadeOutStep ==
    /\ fade_pc = "out"
    /\ last_frame' = Frame("outgoing", "black", fade_i)
    /\ frames_written' = frames_written + 1
    /\ IF LastStep(fade_i)
       THEN fade_pc' = "in" /\ fade_i' = 0
       ELSE fade_i' = fade_i + 1 /\ UNCHANGED fade_pc
    /\ UNCHANGED <<fade_player, fade_outgoing, fade_duration, fade_interrupts>>
    /\ FadeFrame

\* one pass of the fade-in loop; the loop of files/slideshow.py leaves at
\* a set refetch flag
FadeInStep ==
    /\ fade_pc = "in"
    /\ IF fade_player = "pygame" /\ fade_interrupts
       THEN fade_pc' = "cut" /\ UNCHANGED <<fade_i, frames_written, last_frame>>
       ELSE /\ last_frame' = Frame("black", "incoming", fade_i)
            /\ frames_written' = frames_written + 1
            /\ IF LastStep(fade_i)
               THEN fade_pc' = "done" /\ UNCHANGED fade_i
               ELSE fade_i' = fade_i + 1 /\ UNCHANGED fade_pc
    /\ UNCHANGED <<fade_player, fade_outgoing, fade_duration, fade_interrupts>>
    /\ FadeFrame

\* a change event arrives while the transition runs: need_refetch.set()
FadeChangeEvent ==
    /\ fade_pc \in {"start", "out", "in"}
    /\ ~fade_interrupts
    /\ fade_interrupts' = TRUE
    /\ UNCHANGED <<fade_player, fade_outgoing, fade_duration, fade_pc, fade_i,
                   frames_written, last_frame>>
    /\ FadeFrame

NextFade == TransitionStart \/ FadeOutStep \/ FadeInStep \/ FadeChangeEvent

SpecFade == InitFade /\ [][NextFade]_vars

SCROLL_SPEED_PPS == 100

frame_target_duration == 1

TextWidths == {100, 200, 400}

\* apply_text_and_scroll: the position of the text in the frame it composes
apply_text_and_scroll(position, width, delta_time) ==
    LET current_x == position - SCROLL_SPEED_PPS * delta_time
    IN  IF current_x + width < 0 THEN ScreenWidth ELSE current_x

\* slide_scroll_positions[current_slide_index] = {idx: screen_width ...}
ScrollInit ==
    /\ original_text_width \in TextWidths
    /\ scroll_position = ScreenWidth
    /\ scroll_now = 0
    /\ drawn_at = 0
    /\ scroll_frames = 0

InitScroll ==
    EngineInit /\ CapInit /\ GCIdle /\ WebInit /\ TextInit /\ DurIdle /\ QueueIdle /\ AgeInit /\ ListenInit /\ ProcIdle /\ PubIdle /\ StatusIdle /\ VidIdle /\ FadeIdle /\ ScrollInit /\ UploadIdle /\ QuiesceIdle

\* one pass of the hold loop of main: the frame is composed with
\* delta_time = frame_target_duration and written, which takes cost frame
\* periods, then time.sleep(max(0, frame_target_duration - elapsed_frame_time));
\* a text that left the screen starts its next cycle
ScrollLoopPass(cost) ==
    /\ scroll_now + cost + frame_target_duration <= MaxScrollTime
    /\ scroll_position' =
         apply_text_and_scroll(scroll_position, original_text_width, frame_target_duration)
    /\ IF scroll_position' = ScreenWidth
       THEN /\ drawn_at' = 0
            /\ scroll_frames' = 0
            /\ scroll_now' = IF cost > frame_target_duration THEN cost ELSE frame_target_duration
       ELSE /\ drawn_at' = scroll_now
            /\ scroll_frames' = scroll_frames + 1
            /\ scroll_now' = scroll_now
                 + (IF cost > frame_target_duration THEN cost ELSE frame_target_duration)
    /\ UNCHANGED original_text_width
    /\ UNCHANGED <<engineVars, capVars, gcVars, webVars, textVars, durVars,
                   queueVars, ageVars, listenVars, procVars, pubVars, statusVars,
                   vidVars, fadeVars, uploadVars, quiesceVars>>

NextScroll == \E cost \in 0..MaxFrameCost : ScrollLoopPass(cost)

SpecScroll == InitScroll /\ [][NextScroll]_vars

\* C34: during a hold the displacement of a scrolling text since the start
\* of its scroll cycle is speed x elapsed wall-clock time, whatever number
\* of frames was drawn (here: to within the distance of one frame period,
\* the frame being composed for the end of its period)
C34_DisplacementFollowsClock ==
    scroll_frames > 0 =>
        LET displacement == ScreenWidth - scroll_position
            by_clock == SCROLL_SPEED_PPS * drawn_at
        IN  /\ displacement - by_clock <= SCROLL_SPEED_PPS * frame_target_duration
            /\ by_clock - displacement <= SCROLL_SPEED_PPS * frame_target_duration
(***************************************************************************)
(* A screenshot upload against the attachment sweeps (files/slideshow.py): *)
(* website_capture_worker and fetch_content call upload_website_screenshot *)
(* and store the name it returns in website_cache afterwards; a sweep      *)
(* reads website_cache in get_referenced_attachments.                      *)
(***************************************************************************)
\* the playlist has a website slide of URL 1 that is not cached yet, and
\* 0..MaxRefs file attachments, some of them referenced
UploadInit ==
    /\ \E n \in 0..MaxRefs, r \in 0..MaxRefs :
        /\ r <= n
        /\ doc_attachments = 1..n
        /\ doc_slides = {ImageSlide(i) : i \in 1..r} \cup {WebsiteSlide(1)}
    /\ website_cache = [u \in Urls |-> 0]
    /\ doc_rev = 1
    /\ SweepIdle
    /\ capture_queue = <<>>
    /\ capture_in_progress = FALSE
    /\ wpc = "get"
    /\ wurl = 0
    /\ mpc = "idle"
    /\ murl = 0

InitUpload == EngineInit /\ UploadInit /\ AuxInit

\* capture_website returned a surface and its PNG for a URL of the playlist
CaptureReturns ==
    /\ up_pc = "idle"
    /\ \E u \in Urls :
        /\ WebsiteSlide(u) \in doc_slides
        /\ up_url' = u
    /\ up_pc' = "get"
    /\ UNCHANGED <<upload_rev, filename>>
    /\ UNCHANGED <<engineVars, capVars, gcVars, webVars, textVars, durVars,
                   queueVars, ageVars, listenVars, procVars, pubVars, statusVars,
                   vidVars, fadeVars, scrollVars, quiesceVars>>

\* upload_website_screenshot: the GET of the document's _rev; any answer
\* but 200 returns None
UploadGetRev ==
    /\ up_pc = "get"
    /\ \E ok \in Answers :
        IF ok
        THEN /\ upload_rev' = doc_rev
             /\ up_pc' = "put"
             /\ UNCHANGED env_steps
        ELSE /\ up_pc' = "store"
             /\ env_steps' = env_steps + 1
             /\ UNCHANGED upload_rev
    /\ UNCHANGED <<up_url, filename>>
    /\ UNCHANGED <<doc_slides, doc_attachments, doc_rev, cleanup_lock, gc_pc,
                   attachment_names, unused_attachments, batch, current_rev,
                   issued, interfered, get_failed, deleted_referenced>>
    /\ UNCHANGED <<engineVars, capVars, webVars, textVars, durVars,
                   queueVars, ageVars, listenVars, procVars, pubVars, statusVars,
                   vidVars, fadeVars, scrollVars, quiesceVars>>

\* upload_website_screenshot: PUT filename?rev=current_rev; 200 or 201
\* returns the filename, anything else None
UploadPut ==
    /\ up_pc = "put"
    /\ \E delivered \in Answers :
        IF delivered /\ upload_rev = doc_rev
        THEN /\ doc_attachments' = doc_attachments \cup {UploadedName(up_url)}
             /\ doc_rev' = doc_rev + 1
             /\ filename' = UploadedName(up_url)
             /\ interfered' = (interfered \/ Sweeping)
             /\ UNCHANGED env_steps
        ELSE /\ env_steps' = IF delivered THEN env_steps ELSE env_steps + 1
             /\ UNCHANGED <<doc_attachments, doc_rev, filename, interfered>>
    /\ up_pc' = "store"
    /\ UNCHANGED <<up_url, upload_rev>>
    /\ UNCHANGED <<doc_slides, cleanup_lock, gc_pc, attachment_names,
                   unused_attachments, batch, current_rev, issued, get_failed,
                   deleted_referenced>>
    /\ UNCHANGED <<engineVars, capVars, webVars, textVars, durVars,
                   queueVars, ageVars, listenVars, procVars, pubVars, statusVars,
                   vidVars, fadeVars, scrollVars, quiesceVars>>

\* website_cache[url] = {'surface': ..., 'filename': filename or
\* f"website_{int(time.time())}.png", 'timestamp': ...}
StoreInCache ==
    /\ up_pc = "store"
    /\ LET outcome == IF filename # 0 THEN "uploaded" ELSE "local"
       IN  /\ website_cache' = StoreCapture(website_cache, up_url, outcome)
           /\ expired' = StoreTimestamp(expired, up_url, outcome)
    /\ up_pc' = "done"
    /\ UNCHANGED <<up_url, upload_rev, filename>>
    /\ UNCHANGED <<capture_queue, capture_in_progress, wpc, wurl, mpc, murl>>
    /\ UNCHANGED <<engineVars, gcVars, webVars, textVars, durVars,
                   queueVars, listenVars, procVars, pubVars, statusVars,
                   vidVars, fadeVars, scrollVars, quiesceVars>>

NextUpload ==
    \/ CaptureReturns \/ UploadGetRev \/ UploadPut \/ StoreInCache
    \/ ImmediateSweepStart \/ PeriodicSweepStart
    \/ SweepFetch \/ BatchGet \/ DeleteAttachment
    \/ SweepEnd \/ PeriodicSleepEnd

SpecUpload == InitUpload /\ [][NextUpload]_vars

\* C36: whatever the interleaving of an upload, the cache update that
\* follows it and a sweep, once both have ended the attachment named by the
\* cache entry of a URL of the playlist is on the remote document
C36_UploadSurvivesSweep ==
    (up_pc = "done" /\ filename # 0 /\ gc_pc \in {"done", "idle"}) =>
        \A sl \in doc_slides :
            (sl.type = "website" /\ website_cache[sl.url] = filename)
                => filename \in doc_attachments
(***************************************************************************)
(* The player's own writes to the playlist document (files/slideshow.py):  *)
(* the worker's upload of a screenshot and the deletes of the immediate    *)
(* sweep are changes of the document watch_changes listens to.  No editor  *)
(* writes.                                                                 *)
(***************************************************************************)
\* the URLs of the website slides of a list
UrlsOf(list) == {list[i].url : i \in 1..Len(list)} \ {0}

\* the main loop plays a list it has processed: fetch_content captured and
\* uploaded the screenshot of each of its URLs
QuiesceInit ==
    /\ slides_list \in QueueLists
    /\ current_index = -1
    /\ website_cache = [u \in Urls |-> IF u \in UrlsOf(slides_list)
                                       THEN UploadedName(u) ELSE 0]
    /\ capture_queue = <<>>
    /\ capture_in_progress = FALSE
    /\ wpc = "get"
    /\ wurl = 0
    /\ mpc = "idle"
    /\ murl = 0
    /\ QuiesceIdle

InitQuiesce ==
    EngineInit /\ GCIdle /\ WebInit /\ TextInit /\ DurIdle /\ AgeInit /\ ListenInit /\ ProcIdle /\ PubIdle /\ StatusIdle /\ VidIdle /\ FadeIdle /\ ScrollIdle /\ UploadIdle /\ QuiesceInit

\* the worker's capture_website returned: a surface is uploaded under a new
\* name (website_<timestamp>_<hash>.png) and stored in website_cache, which
\* leaves the screenshot the entry named before on the document; an upload
\* that succeeded is a new revision of the document
WorkerCaptureUploads ==
    /\ wpc = "capture"
    /\ \E outcome \in CaptureOutcomes :
        /\ website_cache' = StoreCapture(website_cache, wurl, outcome)
        /\ expired' = StoreTimestamp(expired, wurl, outcome)
        /\ own_change' = (own_change \/ outcome = "uploaded")
        /\ IF outcome # "failed" /\ website_cache[wurl] = UploadedName(wurl)
           THEN stale_shots < MaxStale /\ stale_shots' = stale_shots + 1
           ELSE UNCHANGED stale_shots
    /\ wpc' = "finally"
    /\ UNCHANGED refetch_flag
    /\ UNCHANGED <<capture_queue, capture_in_progress, wurl, mpc, murl>>
    /\ UNCHANGED <<engineVars, gcVars, webVars, textVars, durVars, queueVars,
                   listenVars, procVars, pubVars, statusVars, vidVars, fadeVars,
                   scrollVars, uploadVars>>

\* watch_changes reads the line: its id is tv_uuid, need_refetch.set()
ListenerSetsFlag ==
    /\ own_change
    /\ own_change' = FALSE
    /\ refetch_flag' = TRUE
    /\ UNCHANGED stale_shots
    /\ UNCHANGED <<engineVars, capVars, gcVars, webVars, textVars, durVars,
                   queueVars, ageVars, listenVars, procVars, pubVars, statusVars,
                   vidVars, fadeVars, scrollVars, uploadVars>>

\* a hold loop finds the flag set: need_refetch.clear(), fetch_document,
\* process_slides_from_doc (each website slide is a cache hit) and
\* cleanup_unused_attachments_immediate, which deletes the screenshots no
\* cache entry names; each DELETE is a new revision of the document
HoldRefetch ==
    /\ refetch_flag
    /\ refetch_flag' = FALSE
    /\ stale_shots' = 0
    /\ own_change' = (own_change \/ stale_shots > 0)
    /\ UNCHANGED <<engineVars, capVars, gcVars, webVars, textVars, durVars,
                   queueVars, ageVars, listenVars, procVars, pubVars, statusVars,
                   vidVars, fadeVars, scrollVars, uploadVars>>

WorkerStep == WorkerGet \/ WorkerLock \/ WorkerCaptureUploads \/ WorkerFinally

NextQuiesce ==
    \/ SlideStartQueues
    \/ WorkerGet \/ WorkerLock \/ WorkerCaptureUploads \/ WorkerFinally
    \/ ListenerSetsFlag \/ HoldRefetch

SpecQuiesce == InitQuiesce /\ [][NextQuiesce]_vars

\* the main loop, the worker and the listener keep running
FairQuiesce ==
    /\ SpecQuiesce
    /\ WF_vars(SlideStartQueues) /\ WF_vars(HoldRefetch)
    /\ WF_vars(WorkerStep) /\ WF_vars(ListenerSetsFlag)

\* C37: with no external edit the player's own writes cause finitely many
\* refetches: from some point on no change of its own is unread and the
\* refetch flag stays clear
C37_Quiesces == <>[](~refetch_flag /\ ~own_change)

====
